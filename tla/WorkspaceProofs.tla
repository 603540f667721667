---------------------------- MODULE WorkspaceProofs ----------------------------
(***************************************************************************)
(* Proofs about the two services that follow the files of a workspace: the *)
(* code index, for every set of files and every bound, and the checkpoints,*)
(* for every set of calls and every bound on the commits.                  *)
(***************************************************************************)
EXTENDS MCServices, McpHubProofs, TLAPS

----------------------------------------------------------------------------
(* The types of the code index                                             *)

\* IndexTypeOK in parts: what every run shares, and what is one run's own.
Work == {r \in [at : {"none", "todo", "parsed", "deleted"}, v : 0..3, isNew : BOOLEAN,
                tries : 0..MaxTries] : r.at \in {"parsed", "deleted"} => r.v \in {1, 2}}
Batch == [at : {"none", "clear", "read", "upsert"}, evs : [Files -> Kinds],
          error : BOOLEAN, read : [Files -> 0..3], reports : BOOLEAN]
FileTypes == /\ content \in [Files -> Versions \union {NoFile}]
             /\ cache \in [Files -> Versions \union {NoFile}]
             /\ store \in [Files -> SUBSET Versions]
             /\ failed \subseteq Files /\ unseen \subseteq Files /\ spoiled \subseteq Files
FlagTypes == /\ sysState \in {"Standby", "Indexing", "Indexed", "Error"}
             /\ {collection, processing, cancelRequested, scanCancelled, watching, emitting}
                   \subseteq BOOLEAN
QueueTypes == events \in [Files -> Kinds] /\ batches \in [Batches -> Batch]
Shared == FileTypes /\ FlagTypes /\ QueueTypes
RunTypes == scan \in Scans /\ work \in [Files -> Work]
OldTypes == oldScan \in Scans /\ oldWork \in [Files -> Work]
TypeParts == /\ Shared /\ RunTypes /\ OldTypes
             /\ clearing \in {"none", "points", "hashes", "again"}
             /\ overlapped \in BOOLEAN /\ inputs \in 0..Inputs

Phases == {"none", "init", "voidCache", "files", "gone", "watch", "clean", "cleanCache"}

\* The records that the actions write are of their types.
LEMMA ScanMoves ==
    ASSUME NEW s \in Scans
    PROVE  /\ NoScan \in Scans /\ [NoScan EXCEPT !.at = "init"] \in Scans
           /\ \A at \in Phases : /\ [s EXCEPT !.at = at] \in Scans
                                 /\ [s EXCEPT !.at = at].at = at
                                 /\ [s EXCEPT !.at = at].processed = s.processed
           /\ [s EXCEPT !.some = TRUE] \in Scans
           /\ [s EXCEPT !.some = TRUE].at = s.at /\ [s EXCEPT !.some = TRUE].processed = s.processed
           /\ \A f \in Files : /\ [s EXCEPT !.processed = @ \union {f}] \in Scans
                               /\ [s EXCEPT !.processed = @ \union {f}].at = s.at
                               /\ [s EXCEPT !.processed = @ \union {f}].processed = s.processed \union {f}
                               /\ [s EXCEPT !.lost = @ \union {f}] \in Scans
                               /\ [s EXCEPT !.lost = @ \union {f}].at = s.at
                               /\ [s EXCEPT !.lost = @ \union {f}].processed = s.processed
BY DEF Scans, NoScan, Phases

LEMMA NoWorkMoves == /\ NoWork \in Work /\ NoWork.at = "none"
                     /\ [NoWork EXCEPT !.at = "todo"] \in Work /\ [NoWork EXCEPT !.at = "todo"].at = "todo"
<1>1. 0 \in 0..MaxTries
  BY RunAssumption
<1>2. NoWork \in Work /\ NoWork.at = "none"
  BY <1>1 DEF Work, NoWork
<1> QED
  BY <1>2 DEF Work

LEMMA WorkMoves ==
    ASSUME NEW w \in Work
    PROVE  /\ NoWork \in Work /\ NoWork.at = "none"
           /\ w.at = "parsed" => /\ [w EXCEPT !.at = "deleted"] \in Work
                                 /\ [w EXCEPT !.at = "deleted"].at = "deleted"
                                 /\ [w EXCEPT !.at = "deleted"].v = w.v
                                 /\ [w EXCEPT !.at = "deleted"].isNew = w.isNew
           /\ \A v \in Versions \ {Blank}, new \in BOOLEAN :
                 [at |-> "parsed", v |-> v, isNew |-> new, tries |-> 0] \in Work
<1>1. 0 \in 0..MaxTries
  BY RunAssumption
<1>3. ASSUME w.at = "parsed"
      PROVE  /\ [w EXCEPT !.at = "deleted"] \in Work
             /\ [w EXCEPT !.at = "deleted"].at = "deleted"
             /\ [w EXCEPT !.at = "deleted"].v = w.v
             /\ [w EXCEPT !.at = "deleted"].isNew = w.isNew
  BY <1>3 DEF Work
<1>4. ASSUME NEW v \in Versions \ {Blank}, NEW new \in BOOLEAN
      PROVE  [at |-> "parsed", v |-> v, isNew |-> new, tries |-> 0] \in Work
  BY <1>1 DEF Work, Versions, Blank
<1> QED
  BY <1>3, <1>4, NoWorkMoves

\* The record of another try.
LEMMA TryMoves ==
    ASSUME NEW w \in Work, w.at \in {"parsed", "deleted"}, w.tries < MaxTries - 1
    PROVE  LET r == [w EXCEPT !.at = "parsed", !.tries = @ + 1]
           IN  r \in Work /\ r.at = "parsed" /\ r.v = w.v /\ r.isNew = w.isNew
<1>1. w.tries + 1 \in 0..MaxTries
  BY RunAssumption DEF Work
<1> QED
  BY <1>1 DEF Work

LEMMA BatchMoves ==
    ASSUME batches \in [Batches -> Batch]
    PROVE  /\ NoBatch \in Batch
           /\ \A evs \in [Files -> Kinds], on \in BOOLEAN :
                 [NoBatch EXCEPT !.at = "clear", !.evs = evs, !.reports = on] \in Batch
           /\ \A c \in Batches : /\ [batches[c] EXCEPT !.reports = FALSE] \in Batch
                                 /\ [batches[c] EXCEPT !.at = "read"] \in Batch
                                 /\ [batches[c] EXCEPT !.at = "read", !.error = TRUE] \in Batch
                                 /\ \A read \in [Files -> 0..3] :
                                       [batches[c] EXCEPT !.at = "upsert", !.read = read] \in Batch
<1>1. NoBatch \in Batch
  BY DEF NoBatch, Batch, Kinds
<1> QED
  BY <1>1 DEF NoBatch, Batch

LEMMA ClearCacheTypes ==
    ASSUME FileTypes, ClearCacheFile
    PROVE  cache' \in [Files -> Versions \union {NoFile}] /\ spoiled' \subseteq Files
BY DEF FileTypes, ClearCacheFile, HashesStay, NoHashes

LEMMA StopTypes ==
    ASSUME QueueTypes, unseen \subseteq Files, StopWatcher
    PROVE  /\ QueueTypes' /\ unseen' \subseteq Files
           /\ watching' = FALSE /\ emitting' = FALSE
<1>1. \A b \in Batches : [batches[b] EXCEPT !.reports = FALSE] \in Batch
  BY BatchMoves DEF QueueTypes
<1> QED
  BY <1>1 DEF QueueTypes, StopWatcher, Kinds

\* What the steps of a run do to the files of its batches, field by field.
Becomes(f, r) == work' = [work EXCEPT ![f] = r]
Same == scan'.at = scan.at /\ scan'.processed = scan.processed

LEMMA GiveUpIs ==
    ASSUME RunTypes, NEW f \in Files, GiveUp(f)
    PROVE  /\ Becomes(f, NoWork) /\ Same /\ scan' \in Scans
BY ScanMoves DEF RunTypes, GiveUp, Becomes, Same

LEMMA RetryIs ==
    ASSUME RunTypes, NEW f \in Files, work[f].at \in {"parsed", "deleted"}, Retry(f)
    PROVE  /\ Same /\ scan' \in Scans
           /\ \/ /\ failed' = failed
                 /\ \E r \in Work : /\ Becomes(f, r) /\ r.at = "parsed"
                                    /\ r.v = work[f].v /\ r.isNew = work[f].isNew
              \/ failed' = failed \union {f} /\ Becomes(f, NoWork)
<1>1. CASE work[f].tries < MaxTries - 1
  <2> DEFINE r == [work[f] EXCEPT !.at = "parsed", !.tries = @ + 1]
  <2>1. r \in Work /\ r.at = "parsed" /\ r.v = work[f].v /\ r.isNew = work[f].isNew
    BY <1>1, TryMoves DEF RunTypes
  <2>2. work' = [work EXCEPT ![f] = r] /\ scan' = scan /\ failed' = failed
    BY <1>1 DEF Retry, RunTypes
  <2> HIDE DEF r
  <2> QED
    BY <2>1, <2>2 DEF Becomes, Same, RunTypes
<1>2. CASE ~(work[f].tries < MaxTries - 1)
  BY <1>2, GiveUpIs DEF Retry
<1> QED
  BY <1>1, <1>2

\* A file is left for another run, failed, has not changed, has no blocks, or is
\* parsed.
LEMMA ScanFileIs ==
    ASSUME Shared, RunTypes, NEW f \in Files, ScanFile(f)
    PROVE  /\ scan.at = "files" /\ scan'.at = "files" /\ scan' \in Scans
           /\ UNCHANGED <<content, store, collection, processing, cancelRequested, scanCancelled,
                          watching, emitting, events, batches>>
           /\ sysState' \in {sysState, IF cancelRequested THEN sysState ELSE "Indexing"}
           /\ \E r \in Work :
                /\ Becomes(f, r)
                /\ \/ /\ scanCancelled /\ r.at = "none"
                      /\ UNCHANGED <<scan, failed, unseen, cache, spoiled>>
                   \/ /\ ~scanCancelled /\ content[f] = NoFile /\ r.at = "none"
                      /\ unseen' = unseen \ {f} /\ UNCHANGED <<scan, failed, cache, spoiled>>
                   \/ /\ ~scanCancelled /\ r.at = "none" /\ failed' = failed \union {f}
                      /\ scan'.processed = scan.processed /\ UNCHANGED <<cache, spoiled, unseen>>
                   \/ /\ ~scanCancelled /\ content[f] # NoFile
                      /\ scan'.processed = scan.processed \union {f} /\ unseen' = unseen \ {f}
                      /\ \/ /\ r.at = "none" /\ cache[f] = content[f] /\ failed' = failed \ {f}
                            /\ UNCHANGED <<cache, spoiled>>
                         \/ /\ r.at = "none" /\ content[f] = Blank /\ failed' = failed \ {f}
                            /\ cache' = [cache EXCEPT ![f] = Blank]
                            /\ spoiled' = IF store[f] # {} THEN spoiled \union {f} ELSE spoiled
                         \/ /\ r.at = "parsed" /\ r.v = content[f] /\ r.isNew = (cache[f] = NoFile)
                            /\ cache[f] # content[f] /\ UNCHANGED <<failed, cache, spoiled>>
<1> USE DEF Becomes
<1>1. NoWork \in Work /\ NoWork.at = "none" /\ scan \in Scans
  BY WorkMoves DEF RunTypes
<1>2. /\ scan.at = "files"
      /\ UNCHANGED <<content, store, collection, processing, cancelRequested, scanCancelled,
                     watching, emitting, events, batches>>
  BY DEF ScanFile
<1> DEFINE Left == /\ scanCancelled \/ content[f] = NoFile
                   /\ work' = [work EXCEPT ![f] = NoWork]
                   /\ unseen' = IF scanCancelled THEN unseen ELSE unseen \ {f}
                   /\ UNCHANGED <<cache, sysState, scan, failed, spoiled>>
           Fault == /\ ~scanCancelled
                    /\ GiveUp(f)
                    /\ failed' = failed \union {f}
                    /\ UNCHANGED <<cache, sysState, unseen, spoiled>>
           Read == /\ ~scanCancelled /\ content[f] # NoFile
                   /\ scan' = [scan EXCEPT !.processed = @ \union {f}]
                   /\ unseen' = unseen \ {f}
           Alike == /\ cache[f] = content[f]
                    /\ work' = [work EXCEPT ![f] = NoWork]
                    /\ failed' = failed \ {f}
                    /\ UNCHANGED <<cache, sysState, spoiled>>
           Parsed == /\ cache[f] # content[f] /\ content[f] # Blank
                     /\ Reported
                     /\ work' = [work EXCEPT ![f] = [at |-> "parsed", v |-> content[f],
                                                     isNew |-> cache[f] = NoFile, tries |-> 0]]
                     /\ UNCHANGED <<cache, failed, spoiled>>
<1>3. Left \/ Fault \/ (Read /\ (Alike \/ Parsed \/ ParsedBlank(f)))
  BY DEF ScanFile
<1>4. CASE Left
  BY <1>1, <1>2, <1>4
<1>5. CASE Fault
  BY <1>1, <1>2, <1>5, GiveUpIs DEF Same
<1>6. CASE Read /\ (Alike \/ Parsed \/ ParsedBlank(f))
  <2>1. scan' \in Scans /\ scan'.at = "files" /\ scan'.processed = scan.processed \union {f}
    BY <1>1, <1>2, <1>6, ScanMoves
  <2>2. CASE Alike
    BY <1>1, <1>2, <1>6, <2>1, <2>2
  <2>3. CASE ParsedBlank(f)
    BY <1>1, <1>2, <1>6, <2>1, <2>3 DEF ParsedBlank, Reported
  <2>4. CASE Parsed
    <3> DEFINE r == [at |-> "parsed", v |-> content[f], isNew |-> cache[f] = NoFile, tries |-> 0]
    <3>1. content[f] \in Versions \ {Blank} /\ (cache[f] = NoFile) \in BOOLEAN
      BY <1>6, <2>4 DEF Shared, FileTypes
    <3>2. r \in Work
      BY <3>1, <1>1, WorkMoves
    <3>3. work' = [work EXCEPT ![f] = r] /\ UNCHANGED <<failed, cache, spoiled>>
      BY <2>4
    <3>4. r.at = "parsed" /\ r.v = content[f] /\ r.isNew = (cache[f] = NoFile)
      OBVIOUS
    <3>5. cache[f] # content[f] /\ sysState' = IF cancelRequested THEN sysState ELSE "Indexing"
      BY <2>4 DEF Reported
    <3> HIDE DEF r
    <3> QED
      BY <1>2, <1>6, <2>1, <3>2, <3>3, <3>4, <3>5
  <2> QED
    BY <1>6, <2>2, <2>3, <2>4
<1> QED
  BY <1>3, <1>4, <1>5, <1>6

LEMMA DeleteOldPointsIs ==
    ASSUME RunTypes, NEW f \in Files, DeleteOldPoints(f)
    PROVE  /\ Same /\ scan' \in Scans
           /\ \/ scanCancelled /\ UNCHANGED <<failed, store>> /\ Becomes(f, NoWork)
              \/ /\ failed' = failed
                 /\ store' = IF work[f].isNew THEN store ELSE [store EXCEPT ![f] = {}]
                 /\ \E r \in Work : /\ Becomes(f, r) /\ r.at = "deleted"
                                    /\ r.v = work[f].v /\ r.isNew = work[f].isNew
              \/ Retry(f) /\ store' = store
<1>1. work[f].at = "parsed" /\ work[f] \in Work /\ scan \in Scans
  BY DEF DeleteOldPoints, RunTypes
<1>2. CASE scanCancelled
  BY <1>2, GiveUpIs DEF DeleteOldPoints
<1>3. CASE ~scanCancelled /\ Retry(f) /\ store' = store
  BY <1>1, <1>3, RetryIs
<1>4. CASE /\ ~scanCancelled
           /\ work' = [work EXCEPT ![f].at = "deleted"]
           /\ store' = IF work[f].isNew THEN store ELSE [store EXCEPT ![f] = {}]
           /\ UNCHANGED <<scan, failed>>
  <2> DEFINE r == [work[f] EXCEPT !.at = "deleted"]
  <2>1. r \in Work /\ r.at = "deleted" /\ r.v = work[f].v /\ r.isNew = work[f].isNew
    BY <1>1, WorkMoves
  <2>2. work' = [work EXCEPT ![f] = r]
    BY <1>4
  <2> HIDE DEF r
  <2> QED
    BY <1>1, <1>4, <2>1, <2>2 DEF Becomes, Same
<1> QED
  BY <1>2, <1>3, <1>4 DEF DeleteOldPoints

LEMMA UpsertPointsIs ==
    ASSUME RunTypes, NEW f \in Files, UpsertPoints(f)
    PROVE  /\ Same /\ scan' \in Scans
           /\ sysState' \in {sysState, IF cancelRequested THEN sysState ELSE "Indexing"}
           /\ \/ /\ scanCancelled /\ Becomes(f, NoWork)
                 /\ UNCHANGED <<cache, store, failed, spoiled>>
              \/ /\ collection /\ spoiled' = spoiled /\ Becomes(f, NoWork)
                 /\ store' = [store EXCEPT ![f] = @ \union {work[f].v}]
                 /\ cache' = [cache EXCEPT ![f] = work[f].v]
                 /\ failed' = failed \ {f}
              \/ /\ Retry(f) /\ cache' = cache
                 /\ store' \in {store, [store EXCEPT ![f] = @ \union {work[f].v}]}
                 /\ spoiled' = IF store' # store /\ work[f].isNew THEN spoiled \union {f} ELSE spoiled
<1>1. work[f].at = "deleted" /\ scan \in Scans
  BY DEF UpsertPoints, RunTypes
<1>2. CASE scanCancelled /\ GiveUp(f) /\ UNCHANGED <<cache, store, sysState, failed, spoiled>>
  BY <1>2, GiveUpIs
<1>3. CASE /\ collection /\ Recorded(f) /\ Reported
           /\ store' = [store EXCEPT ![f] = @ \union {work[f].v}]
  <2>1. Same /\ scan' \in Scans
    BY <1>1, <1>3, ScanMoves DEF Recorded, Same
  <2> QED
    BY <1>3, <2>1 DEF Recorded, Reported, Becomes
<1>4. CASE /\ store' \in {store, [store EXCEPT ![f] = @ \union {work[f].v}]}
           /\ spoiled' = IF store' # store /\ work[f].isNew THEN spoiled \union {f} ELSE spoiled
           /\ Retry(f) /\ UNCHANGED <<cache, sysState>>
  BY <1>1, <1>4, RetryIs
<1> QED
  BY <1>2, <1>3, <1>4 DEF UpsertPoints

\* Types, run by run: first the run of the variables scan and work.
LEMMA BeginsTypes ==
    ASSUME Shared, RunTypes, ScanBegins
    PROVE  /\ RunTypes' /\ sysState' \in {"Standby", "Indexing"} /\ processing' \in {FALSE, processing}
           /\ scanCancelled' \in {FALSE, scanCancelled} /\ unseen' \subseteq Files
<1>1. scan \in Scans /\ work \in [Files -> Work]
  BY DEF RunTypes
<1>2. NoScan \in Scans /\ [scan EXCEPT !.at = "files"] \in Scans
  BY <1>1, ScanMoves DEF Phases
<1>3. NoWork \in Work /\ [NoWork EXCEPT !.at = "todo"] \in Work
  BY NoWorkMoves
<1>4. unseen \subseteq Files
  BY DEF Shared, FileTypes
<1>5. work' \in [Files -> Work]
  BY <1>1, <1>3 DEF ScanBegins
<1>6. scan' \in Scans
  BY <1>1, <1>2 DEF ScanBegins
<1> QED
  BY <1>4, <1>5, <1>6 DEF ScanBegins, RunTypes

LEMMA RunStepTypes ==
    ASSUME Shared, RunTypes, RunStep
    PROVE  Shared' /\ RunTypes'
<1> USE DEF Shared
<1>0. scan \in Scans /\ NoScan \in Scans
  BY ScanMoves DEF RunTypes
<1>1. CASE VectorStoreReady
  <2>1. [scan EXCEPT !.at = "voidCache"] \in Scans /\ [scan EXCEPT !.at = "clean"] \in Scans
    BY <1>0, ScanMoves DEF Phases
  <2>2. UNCHANGED <<content, cache, store, cancelRequested, watching, emitting, events, batches,
                    failed, spoiled>>
    BY <1>1 DEF VectorStoreReady
  <2>3. CASE ScanBegins /\ collection' = TRUE
    BY <2>2, <2>3, BeginsTypes DEF FileTypes, FlagTypes, QueueTypes
  <2>4. CASE ~(ScanBegins /\ collection' = TRUE)
    BY <1>1, <2>1, <2>2, <2>4 DEF VectorStoreReady, FileTypes, FlagTypes, QueueTypes, RunTypes
  <2> QED
    BY <2>3, <2>4
<1>2. CASE VoidCache
  <2>1. UNCHANGED <<content, store, collection, cancelRequested, watching, emitting, events, batches,
                    failed>>
    BY <1>2 DEF VoidCache
  <2>2. cache' \in [Files -> Versions \union {NoFile}] /\ spoiled' \subseteq Files
    BY <1>2, ClearCacheTypes DEF VoidCache
  <2>3. /\ RunTypes' /\ sysState' \in {"Standby", "Indexing"} /\ processing' \in {FALSE, processing}
        /\ scanCancelled' \in {FALSE, scanCancelled} /\ unseen' \subseteq Files
    BY <1>2, BeginsTypes DEF VoidCache
  <2> QED
    BY <2>1, <2>2, <2>3 DEF FileTypes, FlagTypes, QueueTypes
<1>3. CASE FilesDone
  <2>1. [scan EXCEPT !.at = "gone"] \in Scans
    BY <1>0, ScanMoves DEF Phases
  <2> QED
    BY <1>0, <1>3, <2>1 DEF FilesDone, FileTypes, FlagTypes, QueueTypes, RunTypes
<1>4. CASE ForgetGoneFiles
  <2>1. \A at \in {"watch", "clean"} : [scan EXCEPT !.at = at] \in Scans
    BY <1>0, ScanMoves DEF Phases
  <2>2. PICK kept \in SUBSET Gone :
          /\ store' = [f \in Files |-> IF f \in Gone \ kept THEN {} ELSE store[f]]
          /\ cache' = [f \in Files |-> IF f \in Gone \ kept THEN NoFile ELSE cache[f]]
          /\ failed' = failed \union kept
    BY <1>4 DEF ForgetGoneFiles
  <2>3. FileTypes'
    BY <1>4, <2>2 DEF ForgetGoneFiles, FileTypes, Gone
  <2>4. scan' \in Scans
    BY <1>0, <1>4, <2>1 DEF ForgetGoneFiles
  <2>5. FlagTypes' /\ QueueTypes' /\ work' = work
    BY <1>4 DEF ForgetGoneFiles, FlagTypes, QueueTypes
  <2> QED
    BY <2>3, <2>4, <2>5 DEF RunTypes
<1>5. CASE StartWatcher
  BY <1>0, <1>5 DEF StartWatcher, FileTypes, FlagTypes, QueueTypes, RunTypes
<1>6. CASE CleanUp
  <2>1. [scan EXCEPT !.at = "cleanCache"] \in Scans
    BY <1>0, ScanMoves DEF Phases
  <2> QED
    BY <1>6, <2>1 DEF CleanUp, NoPoints, FileTypes, FlagTypes, QueueTypes, RunTypes
<1>7. CASE CleanUpCache
  <2>1. QueueTypes' /\ unseen' \subseteq Files /\ watching' = FALSE /\ emitting' = FALSE
    BY <1>7, StopTypes DEF CleanUpCache, FileTypes
  <2>2. cache' \in [Files -> Versions \union {NoFile}] /\ spoiled' \subseteq Files
    BY <1>7, ClearCacheTypes DEF CleanUpCache
  <2> QED
    BY <1>0, <1>7, <2>1, <2>2 DEF CleanUpCache, FileTypes, FlagTypes, RunTypes
<1>8. ASSUME NEW f \in Files, ScanFile(f) PROVE Shared' /\ RunTypes'
  <2>1. PICK r \in Work : Becomes(f, r)
    BY <1>8, ScanFileIs
  <2>2. RunTypes'
    BY <1>8, <2>1, ScanFileIs DEF Becomes, RunTypes
  <2>3. /\ cache' \in {cache, [cache EXCEPT ![f] = Blank]} /\ spoiled' \in {spoiled, spoiled \union {f}}
        /\ failed' \in {failed, failed \union {f}, failed \ {f}} /\ unseen' \in {unseen, unseen \ {f}}
    BY <1>8, ScanFileIs
  <2>4. FileTypes'
    BY <1>8, <2>3, ScanFileIs DEF FileTypes, Blank, Versions
  <2>5. FlagTypes' /\ QueueTypes'
    BY <1>8, ScanFileIs DEF FlagTypes, QueueTypes
  <2> QED
    BY <2>2, <2>4, <2>5
<1>9. ASSUME NEW f \in Files, DeleteOldPoints(f) PROVE Shared' /\ RunTypes'
  <2>1. PICK r \in Work : Becomes(f, r)
    BY <1>9, DeleteOldPointsIs, RetryIs, WorkMoves DEF DeleteOldPoints, RunTypes
  <2>2. RunTypes'
    BY <1>9, <2>1, DeleteOldPointsIs DEF Becomes, RunTypes
  <2>3. store' \in {store, [store EXCEPT ![f] = {}]} /\ failed' \in {failed, failed \union {f}}
    BY <1>9, DeleteOldPointsIs, RetryIs DEF DeleteOldPoints
  <2> QED
    BY <1>9, <2>2, <2>3 DEF DeleteOldPoints, FileTypes, FlagTypes, QueueTypes
<1>10. ASSUME NEW f \in Files, UpsertPoints(f) PROVE Shared' /\ RunTypes'
  <2>0. work[f].at = "deleted" /\ work[f] \in Work
    BY <1>10 DEF UpsertPoints, RunTypes
  <2>1. PICK r \in Work : Becomes(f, r)
    BY <1>10, <2>0, UpsertPointsIs, RetryIs, WorkMoves
  <2>2. RunTypes'
    BY <1>10, <2>1, UpsertPointsIs DEF Becomes, RunTypes
  <2>3. work[f].v \in Versions
    BY <2>0 DEF Work, Versions
  <2>4. /\ store' \in {store, [store EXCEPT ![f] = @ \union {work[f].v}]}
        /\ cache' \in {cache, [cache EXCEPT ![f] = work[f].v]}
        /\ spoiled' \in {spoiled, spoiled \union {f}}
        /\ failed' \in {failed, failed \union {f}, failed \ {f}}
    BY <1>10, <2>0, UpsertPointsIs, RetryIs
  <2>5. FileTypes'
    BY <1>10, <2>3, <2>4 DEF UpsertPoints, FileTypes
  <2>6. FlagTypes' /\ QueueTypes'
    BY <1>10, UpsertPointsIs DEF UpsertPoints, FlagTypes, QueueTypes
  <2> QED
    BY <2>2, <2>5, <2>6
<1> QED
  BY <1>1, <1>2, <1>3, <1>4, <1>5, <1>6, <1>7, <1>8, <1>9, <1>10 DEF RunStep

\* The same of the older run, of which nothing but its types is used.
LEMMA OldRetry ==
    ASSUME OldTypes, NEW f \in Files, oldWork[f].at \in {"parsed", "deleted"}, Old!Retry(f)
    PROVE  OldTypes' /\ failed' \in {failed, failed \union {f}}
<1>1. oldWork[f] \in Work /\ oldScan \in Scans
  BY DEF OldTypes
<1>2. NoWork \in Work /\ Old!NoWork = NoWork
  BY NoWorkMoves DEF NoWork, Old!NoWork
<1>3. [oldScan EXCEPT !.lost = @ \union {f}] \in Scans
  BY <1>1, ScanMoves
<1>4. CASE oldWork[f].tries < MaxTries - 1
  <2>1. [oldWork[f] EXCEPT !.at = "parsed", !.tries = @ + 1] \in Work
    BY <1>1, <1>4, TryMoves
  <2> QED
    BY <1>4, <2>1 DEF Old!Retry, OldTypes
<1>5. CASE ~(oldWork[f].tries < MaxTries - 1)
  BY <1>1, <1>2, <1>3, <1>5 DEF Old!Retry, Old!GiveUp, OldTypes
<1> QED
  BY <1>4, <1>5

LEMMA OldBegins ==
    ASSUME Shared, OldTypes, Old!ScanBegins
    PROVE  /\ OldTypes' /\ sysState' \in {"Standby", "Indexing"} /\ processing' \in {FALSE, processing}
           /\ scanCancelled' \in {FALSE, scanCancelled} /\ unseen' \subseteq Files
<1>1. oldScan \in Scans /\ oldWork \in [Files -> Work]
  BY DEF OldTypes
<1>2. Old!NoScan \in Scans /\ [oldScan EXCEPT !.at = "files"] \in Scans
  BY <1>1, ScanMoves DEF Phases, NoScan, Old!NoScan
<1>3. Old!NoWork \in Work /\ [Old!NoWork EXCEPT !.at = "todo"] \in Work
  BY NoWorkMoves DEF NoWork, Old!NoWork
<1>4. unseen \subseteq Files
  BY DEF Shared, FileTypes
<1>5. oldWork' \in [Files -> Work]
  BY <1>1, <1>3 DEF Old!ScanBegins
<1>6. oldScan' \in Scans
  BY <1>1, <1>2 DEF Old!ScanBegins
<1> QED
  BY <1>4, <1>5, <1>6 DEF Old!ScanBegins, OldTypes

LEMMA OldClearCache ==
    ASSUME FileTypes, Old!ClearCacheFile
    PROVE  cache' \in [Files -> Versions \union {NoFile}] /\ spoiled' \subseteq Files
BY DEF FileTypes, Old!ClearCacheFile, Old!HashesStay, Old!NoHashes

LEMMA OldScanFile ==
    ASSUME Shared, OldTypes, NEW f \in Files, Old!ScanFile(f)
    PROVE  Shared' /\ OldTypes'
<1>1. /\ oldScan \in Scans /\ NoWork \in Work /\ Old!NoWork = NoWork
      /\ [oldScan EXCEPT !.lost = @ \union {f}] \in Scans
      /\ [oldScan EXCEPT !.processed = @ \union {f}] \in Scans
  BY ScanMoves, WorkMoves DEF OldTypes, NoWork, Old!NoWork
<1>2. oldScan' \in Scans
  BY <1>1 DEF Old!ScanFile, Old!GiveUp
<1>3. /\ cache' \in {cache, [cache EXCEPT ![f] = Blank]} /\ spoiled' \in {spoiled, spoiled \union {f}}
      /\ failed' \in {failed, failed \union {f}, failed \ {f}} /\ unseen' \in {unseen, unseen \ {f}}
      /\ sysState' \in {sysState, "Indexing"}
      /\ UNCHANGED <<content, store, collection, processing, cancelRequested, scanCancelled,
                     watching, emitting, events, batches>>
  BY DEF Old!ScanFile, Old!ParsedBlank, Old!Reported, Blank, Old!Blank
<1>4. oldWork' \in [Files -> Work]
  <2> DEFINE r == [at |-> "parsed", v |-> content[f], isNew |-> cache[f] = NoFile, tries |-> 0]
  <2>1. \/ oldWork' = [oldWork EXCEPT ![f] = NoWork]
        \/ content[f] # NoFile /\ content[f] # Blank /\ oldWork' = [oldWork EXCEPT ![f] = r]
    BY <1>1 DEF Old!ScanFile, Old!GiveUp, Old!ParsedBlank, Blank, Old!Blank
  <2>2. content[f] # NoFile /\ content[f] # Blank => content[f] \in Versions \ {Blank}
    BY DEF Shared, FileTypes
  <2>3. content[f] # NoFile /\ content[f] # Blank => r \in Work
    BY <2>2, <1>1, WorkMoves, (cache[f] = NoFile) \in BOOLEAN
  <2> HIDE DEF r
  <2> QED
    BY <1>1, <2>1, <2>3 DEF OldTypes
<1>5. FileTypes'
  BY <1>3 DEF Shared, FileTypes, Blank, Versions
<1> QED
  BY <1>2, <1>3, <1>4, <1>5 DEF Shared, FlagTypes, QueueTypes, OldTypes

LEMMA OldStepTypes ==
    ASSUME Shared, OldTypes, Old!RunStep
    PROVE  Shared' /\ OldTypes'
<1> USE DEF Shared
<1>0. /\ oldScan \in Scans /\ Old!NoScan \in Scans /\ oldWork \in [Files -> Work]
      /\ \A at \in Phases : [oldScan EXCEPT !.at = at] \in Scans
  BY ScanMoves DEF OldTypes, NoScan, Old!NoScan
<1>1. CASE Old!VectorStoreReady
  <2>1. UNCHANGED <<content, cache, store, cancelRequested, watching, emitting, events, batches,
                    failed, spoiled>>
    BY <1>1 DEF Old!VectorStoreReady
  <2>2. CASE Old!ScanBegins /\ collection' = TRUE
    BY <2>1, <2>2, OldBegins DEF FileTypes, FlagTypes, QueueTypes
  <2>3. CASE ~(Old!ScanBegins /\ collection' = TRUE)
    BY <1>0, <1>1, <2>1, <2>3
       DEF Old!VectorStoreReady, FileTypes, FlagTypes, QueueTypes, OldTypes, Phases
  <2> QED
    BY <2>2, <2>3
<1>2. CASE Old!VoidCache
  <2>1. UNCHANGED <<content, store, collection, cancelRequested, watching, emitting, events, batches,
                    failed>>
    BY <1>2 DEF Old!VoidCache
  <2>2. cache' \in [Files -> Versions \union {NoFile}] /\ spoiled' \subseteq Files
    BY <1>2, OldClearCache DEF Old!VoidCache
  <2>3. /\ OldTypes' /\ sysState' \in {"Standby", "Indexing"} /\ processing' \in {FALSE, processing}
        /\ scanCancelled' \in {FALSE, scanCancelled} /\ unseen' \subseteq Files
    BY <1>2, OldBegins DEF Old!VoidCache
  <2> QED
    BY <2>1, <2>2, <2>3 DEF FileTypes, FlagTypes, QueueTypes
<1>3. CASE Old!FilesDone
  BY <1>0, <1>3 DEF Old!FilesDone, FileTypes, FlagTypes, QueueTypes, OldTypes, Phases
<1>4. CASE Old!ForgetGoneFiles
  <2>1. PICK kept \in SUBSET Old!Gone :
          /\ store' = [f \in Files |-> IF f \in Old!Gone \ kept THEN {} ELSE store[f]]
          /\ cache' = [f \in Files |-> IF f \in Old!Gone \ kept THEN NoFile ELSE cache[f]]
          /\ failed' = failed \union kept
    BY <1>4 DEF Old!ForgetGoneFiles
  <2>2. FileTypes'
    BY <1>4, <2>1 DEF Old!ForgetGoneFiles, FileTypes, Old!Gone
  <2>3. oldScan' \in Scans
    BY <1>0, <1>4 DEF Old!ForgetGoneFiles, Phases
  <2>4. FlagTypes' /\ QueueTypes' /\ oldWork' = oldWork
    BY <1>4 DEF Old!ForgetGoneFiles, FlagTypes, QueueTypes
  <2> QED
    BY <2>2, <2>3, <2>4 DEF OldTypes
<1>5. CASE Old!StartWatcher
  BY <1>0, <1>5 DEF Old!StartWatcher, FileTypes, FlagTypes, QueueTypes, OldTypes
<1>6. CASE Old!CleanUp
  BY <1>0, <1>6 DEF Old!CleanUp, Old!NoPoints, FileTypes, FlagTypes, QueueTypes, OldTypes, Phases
<1>7. CASE Old!CleanUpCache
  <2>1. QueueTypes' /\ unseen' \subseteq Files /\ watching' = FALSE /\ emitting' = FALSE
    BY <1>7, BatchMoves
       DEF Old!CleanUpCache, Old!StopWatcher, Old!Batches, Batches, QueueTypes, FileTypes, Kinds
  <2>2. cache' \in [Files -> Versions \union {NoFile}] /\ spoiled' \subseteq Files
    BY <1>7, OldClearCache DEF Old!CleanUpCache
  <2> QED
    BY <1>0, <1>7, <2>1, <2>2 DEF Old!CleanUpCache, FileTypes, FlagTypes, OldTypes
<1>8. ASSUME NEW f \in Files, Old!ScanFile(f) PROVE Shared' /\ OldTypes'
  BY <1>8, OldScanFile
<1>9. ASSUME NEW f \in Files, Old!DeleteOldPoints(f) PROVE Shared' /\ OldTypes'
  <2>1. oldWork[f].at = "parsed" /\ oldWork[f] \in Work
    BY <1>0, <1>9 DEF Old!DeleteOldPoints
  <2>2. /\ [oldScan EXCEPT !.lost = @ \union {f}] \in Scans /\ Old!NoWork \in Work
        /\ [oldWork[f] EXCEPT !.at = "deleted"] \in Work
    BY <1>0, <2>1, ScanMoves, WorkMoves DEF NoWork, Old!NoWork
  <2>3. OldTypes' /\ failed' \in {failed, failed \union {f}}
    BY <1>0, <1>9, <2>1, <2>2, OldRetry DEF Old!DeleteOldPoints, Old!GiveUp, OldTypes
  <2>4. store' \in {store, [store EXCEPT ![f] = {}]}
    BY <1>9 DEF Old!DeleteOldPoints
  <2> QED
    BY <1>9, <2>3, <2>4 DEF Old!DeleteOldPoints, FileTypes, FlagTypes, QueueTypes
<1>10. ASSUME NEW f \in Files, Old!UpsertPoints(f) PROVE Shared' /\ OldTypes'
  <2>1. oldWork[f].at = "deleted" /\ oldWork[f] \in Work /\ oldWork[f].v \in Versions
    BY <1>0, <1>10 DEF Old!UpsertPoints, Work, Versions
  <2>2. /\ [oldScan EXCEPT !.lost = @ \union {f}] \in Scans /\ Old!NoWork \in Work
        /\ [oldScan EXCEPT !.some = TRUE] \in Scans
    BY <1>0, <2>1, ScanMoves, WorkMoves DEF NoWork, Old!NoWork
  <2>3. OldTypes' /\ failed' \in {failed, failed \union {f}, failed \ {f}}
    BY <1>0, <1>10, <2>1, <2>2, OldRetry DEF Old!UpsertPoints, Old!GiveUp, Old!Recorded, OldTypes
  <2>4. /\ store' \in {store, [store EXCEPT ![f] = @ \union {oldWork[f].v}]}
        /\ cache' \in {cache, [cache EXCEPT ![f] = oldWork[f].v]}
        /\ spoiled' \in {spoiled, spoiled \union {f}}
        /\ sysState' \in {sysState, "Indexing"}
    BY <1>10 DEF Old!UpsertPoints, Old!Recorded, Old!Reported
  <2>5. FileTypes'
    BY <1>10, <2>1, <2>3, <2>4 DEF Old!UpsertPoints, FileTypes
  <2> QED
    BY <1>10, <2>3, <2>4, <2>5 DEF Old!UpsertPoints, FlagTypes, QueueTypes
<1> QED
  BY <1>1, <1>2, <1>3, <1>4, <1>5, <1>6, <1>7, <1>8, <1>9, <1>10 DEF Old!RunStep

\* The watcher's batches.
LEMMA BatchTypes ==
    ASSUME Shared, NEW b \in Batches,
           TriggerBatch(b) \/ BatchDeletions(b) \/ BatchReads(b) \/ BatchUpserts(b)
    PROVE  Shared'
<1> USE DEF Shared
<1>1. CASE TriggerBatch(b)
  <2>1. emitting \in BOOLEAN
    BY DEF FlagTypes
  <2>2. [NoBatch EXCEPT !.at = "clear", !.evs = events, !.reports = emitting] \in Batch
    BY <2>1, BatchMoves DEF QueueTypes
  <2>3. QueueTypes'
    BY <1>1, <2>2 DEF TriggerBatch, QueueTypes, Kinds
  <2>4. FileTypes'
    BY <1>1 DEF TriggerBatch, FileTypes
  <2>5. sysState' \in {sysState, "Indexing"}
    BY <1>1 DEF TriggerBatch, Progress
  <2>6. UNCHANGED <<collection, processing, cancelRequested, scanCancelled, watching, emitting>>
    BY <1>1 DEF TriggerBatch
  <2> QED
    BY <2>3, <2>4, <2>5, <2>6 DEF FlagTypes
<1>2. CASE BatchDeletions(b)
  <2>1. QueueTypes'
    BY <1>2, BatchMoves DEF BatchDeletions, QueueTypes
  <2>2. FileTypes'
    BY <1>2 DEF BatchDeletions, FileTypes
  <2> QED
    BY <1>2, <2>1, <2>2 DEF BatchDeletions, FlagTypes
<1>3. CASE BatchReads(b)
  <2> DEFINE upserts == {f \in Files : batches[b].evs[f] \in {"create", "change"}}
             skipped == {f \in upserts : content[f] # NoFile /\ cache[f] = content[f]}
             read(errs) == [f \in Files |-> IF f \in upserts \ (skipped \union errs) THEN content[f] ELSE 0]
  <2>1. PICK errs \in SUBSET (upserts \ skipped) :
          /\ \A f \in upserts : content[f] = NoFile => f \in errs
          /\ batches' = [batches EXCEPT ![b].at = "upsert", ![b].read = read(errs)]
          /\ failed' = failed \union errs
    BY <1>3 DEF BatchReads
  <2>2. read(errs) \in [Files -> 0..3]
    BY <2>1 DEF FileTypes, Versions
  <2>3. batches' = [batches EXCEPT ![b] = [batches[b] EXCEPT !.at = "upsert", !.read = read(errs)]]
    BY <2>1
  <2>4. errs \subseteq Files
    OBVIOUS
  <2> HIDE DEF read, upserts, skipped
  <2>5. QueueTypes'
    BY <1>3, <2>2, <2>3, BatchMoves DEF BatchReads, QueueTypes
  <2> QED
    BY <1>3, <2>1, <2>4, <2>5 DEF BatchReads, FileTypes, FlagTypes
<1>4. CASE BatchUpserts(b)
  <2>1. \A f \in Files : batches[b].read[f] \in 0..3
    BY DEF QueueTypes, Batch
  <2>2. batches' \in [Batches -> Batch]
    BY <1>4, BatchMoves DEF BatchUpserts, QueueTypes
  <2>3. store' \in [Files -> SUBSET Versions] /\ cache' \in [Files -> Versions \union {NoFile}]
    BY <1>4, <2>1 DEF BatchUpserts, FileTypes, Versions
  <2> QED
    BY <1>4, <2>2, <2>3 DEF BatchUpserts, Progress, FileTypes, FlagTypes, QueueTypes
<1> QED
  BY <1>1, <1>2, <1>3, <1>4

LEMMA BeginRunTypes ==
    ASSUME BeginRun
    PROVE  /\ RunTypes' /\ sysState' = "Indexing" /\ processing' = TRUE /\ cancelRequested' = FALSE
           /\ scan'.at = "init" /\ scan'.processed = {} /\ \A f \in Files : work'[f] = NoWork
<1>1. NoScan \in Scans
  BY DEF NoScan, Scans
<1> QED
  BY <1>1, NoWorkMoves, ScanMoves DEF BeginRun, RunTypes, NoScan

\* The buttons and the user's edits.
LEMMA ButtonTypes ==
    ASSUME TypeParts, IndexUser
    PROVE  TypeParts'
<1> USE DEF TypeParts
<1>1. ASSUME Input PROVE inputs' \in 0..Inputs
  BY <1>1, IndexAssumption DEF Input
<1>2. CASE StartIndexing
  <2>1. RunTypes' /\ OldTypes'
    BY <1>2, BeginRunTypes DEF StartIndexing, RunTypes, OldTypes, oldRun
  <2>2. Shared'
    BY <1>2, BeginRunTypes DEF StartIndexing, Shared, FileTypes, FlagTypes, QueueTypes
  <2>3. overlapped' \in BOOLEAN
    BY <1>2 DEF StartIndexing
  <2> QED
    BY <1>1, <1>2, <2>1, <2>2, <2>3 DEF StartIndexing
<1>3. CASE CancelIndexing
  BY <1>1, <1>3, StopTypes
     DEF CancelIndexing, Shared, FileTypes, FlagTypes, RunTypes, OldTypes, oldRun
<1>4. CASE ClearIndexData
  BY <1>1, <1>4, StopTypes
     DEF ClearIndexData, Shared, FileTypes, FlagTypes, RunTypes, OldTypes, oldRun
<1>5. CASE Restart
  <2>1. NoScan \in Scans /\ NoWork \in Work /\ NoBatch \in Batch
    BY NoWorkMoves DEF NoScan, Scans, NoBatch, Batch, Kinds
  <2>2. RunTypes' /\ OldTypes'
    BY <1>5, <2>1, BeginRunTypes DEF Restart, RunTypes, OldTypes
  <2>3. FlagTypes'
    BY <1>5, BeginRunTypes DEF Restart, Shared, FlagTypes
  <2>4. FileTypes' /\ QueueTypes'
    BY <1>5, <2>1 DEF Restart, Shared, FileTypes, QueueTypes, Kinds
  <2> QED
    BY <1>1, <1>5, <2>2, <2>3, <2>4 DEF Restart, Shared
<1>6. ASSUME NEW f \in Files, Edit(f) PROVE TypeParts'
  <2>1. FileTypes' /\ QueueTypes'
    BY <1>6 DEF Edit, Shared, FileTypes, QueueTypes, Kinds
  <2> QED
    BY <1>1, <1>6, <2>1 DEF Edit, Shared, FlagTypes, RunTypes, OldTypes, oldRun
<1> QED
  BY <1>2, <1>3, <1>4, <1>5, <1>6 DEF IndexUser

LEMMA TypesStep ==
    ASSUME TypeParts, [IndexNext]_indexVars
    PROVE  TypeParts'
<1> USE DEF TypeParts
<1>1. CASE UNCHANGED indexVars
  BY <1>1 DEF indexVars, runVars, oldRun, others, Shared, FileTypes, FlagTypes, QueueTypes,
              RunTypes, OldTypes
<1>2. CASE RunStep /\ UNCHANGED <<oldRun, others>>
  BY <1>2, RunStepTypes DEF OldTypes, oldRun, others
<1>3. CASE Old!RunStep /\ UNCHANGED <<scan, work, others>>
  BY <1>3, OldStepTypes DEF RunTypes, others
<1>4. CASE ClearPoints
  BY <1>4
     DEF ClearPoints, NoPoints, Shared, FileTypes, FlagTypes, QueueTypes, RunTypes, OldTypes,
         oldRun
<1>5. CASE ClearHashes
  <2>1. cache' \in [Files -> Versions \union {NoFile}] /\ spoiled' \subseteq Files
    BY <1>5, ClearCacheTypes DEF ClearHashes, HashesGone, HashesStay, NoHashes, Shared, FileTypes
  <2> QED
    BY <1>5, <2>1
       DEF ClearHashes, Shared, FileTypes, FlagTypes, QueueTypes, RunTypes, OldTypes, oldRun
<1>6. CASE ClearHashesAgain
  <2>1. cache' \in [Files -> Versions \union {NoFile}] /\ spoiled' \subseteq Files
    BY <1>6, ClearCacheTypes DEF ClearHashesAgain, Shared
  <2> QED
    BY <1>6, <2>1
       DEF ClearHashesAgain, Shared, FileTypes, FlagTypes, QueueTypes, RunTypes, OldTypes, oldRun
<1>7. ASSUME NEW b \in Batches,
             TriggerBatch(b) \/ BatchDeletions(b) \/ BatchReads(b) \/ BatchUpserts(b)
      PROVE  TypeParts'
  <2>1. UNCHANGED <<scan, work, oldRun, others>>
    BY <1>7 DEF TriggerBatch, BatchDeletions, BatchReads, BatchUpserts
  <2> QED
    BY <1>7, <2>1, BatchTypes DEF RunTypes, OldTypes, oldRun, others
<1>8. CASE IndexUser
  BY <1>8, ButtonTypes
<1> QED
  BY <1>1, <1>2, <1>3, <1>4, <1>5, <1>6, <1>7, <1>8 DEF IndexNext, Indexer, Runs

LEMMA TypesInitially == IndexInit => TypeParts
<1> SUFFICES ASSUME IndexInit PROVE TypeParts
  OBVIOUS
<1>1. NoScan \in Scans /\ [NoScan EXCEPT !.at = "init"] \in Scans /\ NoWork \in Work /\ NoBatch \in Batch
  <2>1. NoScan \in Scans /\ NoBatch \in Batch
    BY DEF NoScan, Scans, NoBatch, Batch, Kinds
  <2> QED
    BY <2>1, ScanMoves, NoWorkMoves
<1>2. RunTypes /\ OldTypes
  <2>1. scan \in Scans
    BY <1>1 DEF IndexInit
  <2>2. work \in [Files -> Work] /\ oldWork = work /\ oldScan = NoScan
    BY <1>1 DEF IndexInit
  <2> QED
    BY <1>1, <2>1, <2>2 DEF RunTypes, OldTypes
<1>3. FileTypes
  BY DEF IndexInit, FileTypes, NoHashes, NoPoints, Versions
<1>4. FlagTypes
  <2>1. sysState \in {"Indexing", "Error"} /\ processing \in BOOLEAN
    BY DEF IndexInit
  <2>2. /\ collection = FALSE /\ cancelRequested = FALSE /\ scanCancelled = FALSE
        /\ watching = FALSE /\ emitting = TRUE
    BY DEF IndexInit
  <2> QED
    BY <2>1, <2>2 DEF FlagTypes
<1>5. QueueTypes
  BY <1>1 DEF IndexInit, QueueTypes, Kinds
<1>6. clearing = "none" /\ overlapped = FALSE /\ inputs \in 0..Inputs
  BY IndexAssumption DEF IndexInit
<1> QED
  BY <1>2, <1>3, <1>4, <1>5, <1>6 DEF TypeParts, Shared

LEMMA TypesAlways == IndexSpec => []TypeParts
BY TypesInitially, TypesStep, PTL DEF IndexSpec

\* Every variable of the index keeps its type, for both runs, however they overlap.
THEOREM IndexTypes == IndexSpec => []IndexTypeOK
<1>1. TypeParts => IndexTypeOK
  <2> SUFFICES ASSUME TypeParts PROVE IndexTypeOK
    OBVIOUS
  <2>1. work \in Works /\ oldWork \in Works
    BY DEF TypeParts, RunTypes, OldTypes, Work, Works
  <2>2. scan \in Scans /\ oldScan \in Scans
    BY DEF TypeParts, RunTypes, OldTypes
  <2> QED
    BY <2>1, <2>2 DEF TypeParts, Shared, FileTypes, FlagTypes, QueueTypes, Batch, IndexTypeOK
<1> QED
  BY <1>1, TypesAlways, PTL

----------------------------------------------------------------------------
(* The files of the code index, as long as runs do not overlap             *)

\* Batch b holds an event of f, one that will store points.
Pending(b, f) == batches[b].evs[f] # "none"
Upserts(b, f) == batches[b].evs[f] \in {"create", "change"}

\* An idle batch holds nothing, one whose watcher is gone is not heard, and only
\* files that batches write have been read.
BatchInv ==
    \A b \in Batches :
       /\ batches[b].at = "none" => \A f \in Files : ~Pending(b, f)
       /\ batches[b].reports => watching
       /\ \A f \in Files : batches[b].read[f] # 0 => batches[b].at = "upsert" /\ Upserts(b, f)

\* A run, the watcher and a clear exclude each other, the state says which of the
\* first two is on, a cancelled run is still flagged while its batches go on, and
\* without a collection nothing is stored.
RunInv ==
    /\ OldRunOver
    /\ watching => RunOver /\ collection /\ clearing = "none"
    /\ clearing # "none" => RunOver
    /\ watching <=> sysState = "Indexed" \/ (sysState = "Indexing" /\ scan.at = "none")
    /\ ~RunOver => sysState \in {"Standby", "Indexing"}
    /\ ~watching => NoEvents
    /\ (scan.at = "files" /\ scanCancelled) \/ (scan.at = "none" /\ ~NothingInScan) => cancelRequested
    /\ scan.at \notin {"none", "files"} => NothingInScan
    /\ scan.at \in {"voidCache", "files", "gone", "watch"} \/ ~NothingInScan => collection
    /\ ~collection => \A f \in Files : store[f] = {}

\* A file is noted as processed when it is read.
ProcessedInv ==
    /\ scan.at \in {"init", "voidCache"} => scan.processed = {}
    /\ scan.at = "files" => \A f \in scan.processed : work[f].at # "todo"

\* The last event of a file says whether it is there.
EventInv(f) == events[f] # "none" => (events[f] = "delete" <=> content[f] = NoFile)

\* One batch at most holds an event of an unspoiled file, and no run works on it.
HolderInv(f) ==
    /\ \A b, c \in Batches : Pending(b, f) /\ Pending(c, f) => b = c
    /\ scan.at # "none" \/ work[f].at # "none" => ~InBatch(f)

\* The points are gone, the hashes not yet: the collection is, or a run is between
\* the two.
Void == \/ scan.at \in {"voidCache", "cleanCache"}
        \/ ~collection /\ (clearing = "hashes" \/ scan.at \in {"init", "clean"})

\* A file without a hash has no points and one whose hash is right has its own;
\* between the deletion of points and the upsert the hash is not right.
PointsInv(f) ==
    /\ cache[f] = NoFile => store[f] = {}
    /\ IF Void THEN store[f] = {}
       ELSE content[f] # NoFile /\ cache[f] = content[f] => store[f] = Stored(f)
    /\ work[f].at \in {"parsed", "deleted"} =>
          /\ work[f].isNew = (cache[f] = NoFile)
          /\ content[f] # NoFile => cache[f] # content[f]
    /\ work[f].at = "deleted" => store[f] = {}
    /\ \A b \in Batches :
          batches[b].at \in {"read", "upsert"} /\ ~batches[b].error /\ Upserts(b, f) => store[f] = {}

\* The hash is right, a failure was reported, or there is nothing to store; a
\* batch will still write the file; what a batch knows of a file is what it holds.
Known(f) == \/ cache[f] = content[f] \/ f \in failed
            \/ content[f] = Blank /\ store[f] = {}
Comes(b, f) == /\ Pending(b, f)
               /\ batches[b].at = "read" => Upserts(b, f)
               /\ batches[b].at = "upsert" => batches[b].read[f] # 0
Current(b, f) == IF batches[b].at = "upsert" THEN batches[b].read[f] \in {0, content[f]}
                 ELSE batches[b].evs[f] = "delete" <=> content[f] = NoFile

\* How the index follows a file: watched, it is known, waits as an event or is in
\* a batch; scanned, it is known, waits or is in the run's work as it now is.
TrackInv(f) ==
    /\ watching /\ events[f] = "none" =>
          /\ \A b \in Batches : Pending(b, f) => Current(b, f)
          /\ Known(f) \/ \E b \in Batches : Comes(b, f)
    /\ scan.at = "files" /\ ~scanCancelled /\ work[f].at # "todo" =>
          IF content[f] = NoFile THEN f \notin scan.processed /\ work[f].at = "none"
          ELSE \/ f \in failed /\ work[f].at = "none"
               \/ /\ f \in scan.processed
                  /\ IF work[f].at = "none" THEN Known(f) ELSE work[f].v = content[f]
    /\ scan.at = "gone" /\ ~scanCancelled =>
          IF content[f] = NoFile THEN f \notin scan.processed
          ELSE f \in failed \/ (f \in scan.processed /\ Known(f))
    /\ scan.at = "watch" => Known(f)

IndexInv ==
    /\ BatchInv /\ RunInv /\ ProcessedInv
    /\ \A f \in Files \ spoiled : EventInv(f) /\ HolderInv(f) /\ PointsInv(f)
    /\ \A f \in Files \ (spoiled \union unseen) : TrackInv(f)

LEMMA OldRests == ASSUME OldRunOver PROVE ~Old!RunStep
BY DEF OldRunOver, Old!NothingInScan, Old!RunStep, Old!VectorStoreReady, Old!VoidCache, Old!FilesDone,
       Old!ForgetGoneFiles, Old!StartWatcher, Old!CleanUp, Old!CleanUpCache, Old!ScanFile,
       Old!DeleteOldPoints, Old!UpsertPoints

\* A start that does not overlap finds nothing under way.
LEMMA StartIs ==
    ASSUME RunInv, StartIndexing, ~overlapped'
    PROVE  /\ RunOver /\ ~watching
           /\ UNCHANGED <<content, cache, store, collection, scanCancelled, watching, events, batches,
                          failed, unseen, clearing>>
           /\ spoiled' = spoiled \union {f \in Files : InBatch(f)}
           /\ \/ /\ BeginRun /\ clearing = "none"
                 /\ oldScan' = scan /\ oldWork' = work
              \/ UNCHANGED <<cancelRequested, sysState, scan, work, oldRun>>
<1>1. RunOver /\ ~watching
  BY DEF StartIndexing, RunInv
<1> QED
  BY <1>1 DEF StartIndexing

\* What the batches of the watcher become.
Others(c) == \A d \in Batches \ {c} : batches'[d] = batches[d]

LEMMA StopIs ==
    ASSUME QueueTypes, StopWatcher, NEW b \in Batches
    PROVE  /\ ~watching' /\ ~batches'[b].reports /\ batches'[b].at = batches[b].at
           /\ batches'[b].evs = batches[b].evs /\ batches'[b].error = batches[b].error
           /\ batches'[b].read = batches[b].read
           /\ \A f \in Files : events'[f] = "none"
           /\ unseen \subseteq unseen'
BY DEF QueueTypes, Batch, StopWatcher

LEMMA TriggerIs ==
    ASSUME QueueTypes, NEW c \in Batches, TriggerBatch(c)
    PROVE  /\ Others(c) /\ batches'[c].at = "clear" /\ batches'[c].evs = events
           /\ ~batches'[c].error /\ batches'[c].reports = emitting
           /\ \A f \in Files : batches'[c].read[f] = 0
BY DEF QueueTypes, TriggerBatch, NoBatch, Others

LEMMA DeletionsIs ==
    ASSUME QueueTypes, NEW c \in Batches, BatchDeletions(c)
    PROVE  /\ Others(c) /\ batches[c].at = "clear" /\ batches'[c].at = "read"
           /\ batches'[c].evs = batches[c].evs /\ batches'[c].reports = batches[c].reports
           /\ batches'[c].read = batches[c].read
BY DEF QueueTypes, Batch, BatchDeletions, Others

LEMMA ReadsIs ==
    ASSUME Shared, NEW c \in Batches, BatchReads(c)
    PROVE  /\ Others(c) /\ batches[c].at = "read" /\ batches'[c].at = "upsert"
           /\ batches'[c].evs = batches[c].evs /\ batches'[c].reports = batches[c].reports
           /\ batches'[c].error = batches[c].error
           /\ \A f \in Files :
                 /\ batches'[c].read[f] # 0 => Upserts(c, f) /\ batches'[c].read[f] = content[f]
                 /\ Upserts(c, f) /\ batches'[c].read[f] = 0 => Known(f)'
           /\ failed \subseteq failed'
<1> DEFINE upserts == {f \in Files : batches[c].evs[f] \in {"create", "change"}}
           skipped == {f \in upserts : content[f] # NoFile /\ cache[f] = content[f]}
           read(errs) == [f \in Files |-> IF f \in upserts \ (skipped \union errs) THEN content[f] ELSE 0]
<1>1. PICK errs \in SUBSET (upserts \ skipped) :
        /\ \A f \in upserts : content[f] = NoFile => f \in errs
        /\ batches' = [batches EXCEPT ![c].at = "upsert", ![c].read = read(errs)]
        /\ failed' = failed \union errs
  BY DEF BatchReads
<1>2. batches[c].at = "read" /\ content' = content /\ cache' = cache
  BY DEF BatchReads
<1>3. /\ Others(c) /\ batches'[c].at = "upsert"
      /\ batches'[c].evs = batches[c].evs /\ batches'[c].reports = batches[c].reports
      /\ batches'[c].error = batches[c].error /\ batches'[c].read = read(errs)
  BY <1>1 DEF Shared, QueueTypes, Batch, Others
<1>4. \A f \in Files : content[f] # NoFile => content[f] # 0
  BY DEF Shared, FileTypes, Versions
<1>5. ASSUME NEW f \in Files, read(errs)[f] # 0
      PROVE  Upserts(c, f) /\ read(errs)[f] = content[f]
  BY <1>5 DEF Upserts
<1>6. ASSUME NEW f \in Files, Upserts(c, f), read(errs)[f] = 0
      PROVE  Known(f)'
  <2>1. f \in skipped \union errs
    BY <1>1, <1>4, <1>6 DEF Upserts
  <2> QED
    BY <1>1, <1>2, <2>1 DEF Known
<1> HIDE DEF read
<1> QED
  BY <1>1, <1>2, <1>3, <1>5, <1>6

LEMMA UpsertsIs ==
    ASSUME QueueTypes, NEW c \in Batches, BatchUpserts(c)
    PROVE  /\ Others(c) /\ batches[c].at = "upsert" /\ batches'[c].at = "none"
           /\ ~batches'[c].reports /\ \A f \in Files : ~Pending(c, f)' /\ batches'[c].read[f] = 0
BY DEF QueueTypes, BatchUpserts, NoBatch, Others, Pending

LEMMA RestartIs ==
    ASSUME Restart
    PROVE  /\ \A b \in Batches : batches'[b] = NoBatch
           /\ \A f \in Files : events'[f] = "none" /\ work'[f] = NoWork /\ oldWork'[f] = NoWork
           /\ oldScan' = NoScan /\ clearing' = "none"
           /\ UNCHANGED <<content, cache, store, collection, failed, overlapped>>
           /\ spoiled \subseteq spoiled' /\ unseen \subseteq unseen'
           /\ \A f \in Files : events[f] # "none" \/ InBatch(f) => f \in unseen'
           /\ \A f \in Files : sysState = "Indexed" /\ InBatch(f) => f \in spoiled'
           /\ \A f \in Files : scan.at \in {"voidCache", "cleanCache"} /\ cache[f] # NoFile => f \in spoiled'
           /\ \/ /\ sysState = "Indexed" /\ sysState' = "Indexed" /\ watching' = TRUE
                 /\ cancelRequested' = FALSE /\ scan' = NoScan
              \/ /\ sysState # "Indexed" /\ sysState' = "Indexing" /\ watching' = FALSE
                 /\ scan' = [NoScan EXCEPT !.at = "init"]
                 /\ cancelRequested' = FALSE
BY DEF Restart, BeginRun

\* The invariants about the whole index, as long as no two runs overlap.
LEMMA BatchStep ==
    ASSUME Shared, RunTypes, BatchInv, RunInv, [IndexNext]_indexVars, ~overlapped'
    PROVE  BatchInv'
<1>1. CASE UNCHANGED indexVars
  BY <1>1 DEF indexVars, runVars, oldRun, others, BatchInv, Pending, Upserts
<1>2. CASE StartIndexing
  BY <1>2, StartIs DEF BatchInv, Pending, Upserts
<1>3. CASE VectorStoreReady /\ UNCHANGED <<oldRun, others>>
  BY <1>3 DEF VectorStoreReady, BatchInv, Pending, Upserts
<1>4. CASE VoidCache /\ UNCHANGED <<oldRun, others>>
  BY <1>4 DEF VoidCache, BatchInv, Pending, Upserts
<1>5. CASE FilesDone /\ UNCHANGED <<oldRun, others>>
  BY <1>5 DEF FilesDone, BatchInv, Pending, Upserts
<1>6. CASE ForgetGoneFiles /\ UNCHANGED <<oldRun, others>>
  BY <1>6 DEF ForgetGoneFiles, BatchInv, Pending, Upserts
<1>7. CASE StartWatcher /\ UNCHANGED <<oldRun, others>>
  BY <1>7 DEF StartWatcher, BatchInv, Pending, Upserts
<1>8. CASE CleanUp /\ UNCHANGED <<oldRun, others>>
  BY <1>8 DEF CleanUp, BatchInv, Pending, Upserts
<1>9. CASE CleanUpCache /\ UNCHANGED <<oldRun, others>>
  BY <1>9, StopIs DEF CleanUpCache, BatchInv, Pending, Upserts, Shared
<1>10. CASE CancelIndexing
  BY <1>10, StopIs DEF CancelIndexing, BatchInv, Pending, Upserts, Shared
<1>11. CASE ClearIndexData
  BY <1>11, StopIs DEF ClearIndexData, BatchInv, Pending, Upserts, Shared
<1>12. CASE ClearPoints
  BY <1>12 DEF ClearPoints, BatchInv, Pending, Upserts
<1>13. CASE ClearHashes
  BY <1>13 DEF ClearHashes, BatchInv, Pending, Upserts
<1>14. CASE ClearHashesAgain
  BY <1>14 DEF ClearHashesAgain, BatchInv, Pending, Upserts
<1>15. CASE Restart
  BY <1>15, RestartIs DEF BatchInv, Pending, NoBatch
<1>16. ASSUME NEW g \in Files, ScanFile(g), UNCHANGED <<oldRun, others>>
       PROVE  BatchInv'
  BY <1>16 DEF ScanFile, BatchInv, Pending, Upserts
<1>17. ASSUME NEW g \in Files, DeleteOldPoints(g), UNCHANGED <<oldRun, others>>
       PROVE  BatchInv'
  BY <1>17 DEF DeleteOldPoints, BatchInv, Pending, Upserts
<1>18. ASSUME NEW g \in Files, UpsertPoints(g), UNCHANGED <<oldRun, others>>
       PROVE  BatchInv'
  BY <1>18 DEF UpsertPoints, BatchInv, Pending, Upserts
<1>19. ASSUME NEW g \in Files, Edit(g)
       PROVE  BatchInv'
  BY <1>19 DEF Edit, BatchInv, Pending, Upserts
<1>20. ASSUME NEW c \in Batches, TriggerBatch(c)
       PROVE  BatchInv'
  <2>1. watching /\ watching' = watching
    BY <1>20 DEF TriggerBatch, RunInv
  <2>2. ASSUME NEW b \in Batches \ {c}
        PROVE  batches'[b] = batches[b]
    BY <1>20, TriggerIs DEF Others, Shared
  <2> QED
    BY <1>20, <2>1, <2>2, TriggerIs DEF BatchInv, Pending, Upserts, Shared
<1>21. ASSUME NEW c \in Batches, BatchDeletions(c)
       PROVE  BatchInv'
  <2>1. watching' = watching
    BY <1>21 DEF BatchDeletions
  <2>2. ASSUME NEW b \in Batches \ {c}
        PROVE  batches'[b] = batches[b]
    BY <1>21, DeletionsIs DEF Others, Shared
  <2> QED
    BY <1>21, <2>1, <2>2, DeletionsIs DEF BatchInv, Pending, Upserts, Shared
<1>22. ASSUME NEW c \in Batches, BatchReads(c)
       PROVE  BatchInv'
  <2>1. watching' = watching
    BY <1>22 DEF BatchReads
  <2>2. ASSUME NEW b \in Batches \ {c}
        PROVE  batches'[b] = batches[b]
    BY <1>22, ReadsIs DEF Others, Shared
  <2> QED
    BY <1>22, <2>1, <2>2, ReadsIs DEF BatchInv, Pending, Upserts, Shared
<1>23. ASSUME NEW c \in Batches, BatchUpserts(c)
       PROVE  BatchInv'
  <2>1. watching' = watching
    BY <1>23 DEF BatchUpserts
  <2>2. ASSUME NEW b \in Batches \ {c}
        PROVE  batches'[b] = batches[b]
    BY <1>23, UpsertsIs DEF Others, Shared
  <2> QED
    BY <1>23, <2>1, <2>2, UpsertsIs DEF BatchInv, Pending, Upserts, Shared
<1> QED
  BY <1>1, <1>2, <1>3, <1>4, <1>5, <1>6, <1>7, <1>8, <1>9, <1>10, <1>11, <1>12, <1>13, <1>14,
     <1>15, <1>16, <1>17, <1>18, <1>19, <1>20, <1>21, <1>22, <1>23, OldRests
     DEF IndexNext, Indexer, IndexUser, Runs, RunStep, RunInv

LEMMA RunInvStep ==
    ASSUME Shared, RunTypes, BatchInv, RunInv, [IndexNext]_indexVars, ~overlapped'
    PROVE  RunInv'
<1>1. CASE UNCHANGED indexVars
  BY <1>1 DEF indexVars, runVars, oldRun, others, oldRun, others, RunInv, RunOver, OldRunOver,
     Old!NothingInScan, NothingInScan, NoEvents
<1>2. CASE StartIndexing
  <2>1. CASE BeginRun
    <3>1. NoScan.at = "none" /\ [NoScan EXCEPT !.at = "init"].at = "init" /\ NoWork.at = "none"
      BY DEF NoScan, NoWork
    <3>2. /\ scan'.at = "init" /\ sysState' = "Indexing" /\ \A f \in Files : work'[f].at = "none"
      BY <2>1, <3>1 DEF BeginRun
    <3>3. RunOver /\ clearing = "none" /\ ~watching /\ oldScan' = scan /\ oldWork' = work
      BY <1>2, <3>2, StartIs DEF RunOver
    <3>4. OldRunOver'
      BY <3>3 DEF RunOver, NothingInScan, OldRunOver, Old!NothingInScan
    <3> QED
      BY <1>2, StartIs, <3>2, <3>3, <3>4 DEF RunInv, NothingInScan, NoEvents, RunOver
  <2>2. CASE UNCHANGED <<cancelRequested, sysState, scan, work, oldRun>>
    BY <1>2, <2>2, StartIs
       DEF oldRun, RunInv, RunOver, OldRunOver, Old!NothingInScan, NothingInScan, NoEvents
  <2> QED
    BY <1>2, <2>1, <2>2, StartIs
<1>3. CASE VectorStoreReady /\ UNCHANGED <<oldRun, others>>
  <2>1. /\ scan.at = "init" /\ UNCHANGED <<watching, store, events, cancelRequested, clearing, oldRun>>
        /\ \/ scan'.at = "none" /\ sysState' = "Standby" /\ collection' /\ work' = work
           \/ /\ scan'.at = "files" /\ sysState' = "Indexing" /\ collection' /\ ~scanCancelled'
              /\ \A f \in Files : work'[f].at \in {"none", "todo"}
           \/ /\ scan'.at = "voidCache" /\ collection' /\ sysState' = sysState /\ work' = work
              /\ scanCancelled' = scanCancelled
           \/ /\ scan'.at = "clean" /\ sysState' = sysState /\ collection' = collection /\ work' = work
              /\ scanCancelled' = scanCancelled
    BY <1>3 DEF VectorStoreReady, ScanBegins, NoScan, NoWork, RunTypes, Scans, others, oldRun
  <2> QED
    BY <2>1 DEF oldRun, RunInv, RunOver, OldRunOver, Old!NothingInScan, NothingInScan, NoEvents
<1>4. CASE VoidCache /\ UNCHANGED <<oldRun, others>>
  <2>1. /\ scan.at = "voidCache"
        /\ UNCHANGED <<watching, store, events, collection, cancelRequested, clearing, oldRun>>
        /\ \/ scan'.at = "none" /\ sysState' = "Standby" /\ work' = work
           \/ /\ scan'.at = "files" /\ sysState' = "Indexing" /\ ~scanCancelled'
              /\ \A f \in Files : work'[f].at \in {"none", "todo"}
    BY <1>4 DEF VoidCache, ScanBegins, NoScan, NoWork, RunTypes, Scans, others, oldRun
  <2> QED
    BY <2>1 DEF oldRun, RunInv, RunOver, OldRunOver, Old!NothingInScan, NothingInScan, NoEvents
<1>5. CASE FilesDone /\ UNCHANGED <<oldRun, others>>
  <2>1. /\ scan.at = "files"
        /\ UNCHANGED <<watching, store, events, work, collection, cancelRequested, scanCancelled,
                       clearing, oldRun>>
        /\ \/ scan'.at = "none" /\ sysState' \in {"Error", "Standby"} /\ scanCancelled
              /\ (sysState' = "Error" => sysState = "Error")
           \/ scan'.at = "gone" /\ NothingInScan /\ sysState' = sysState
    BY <1>5 DEF FilesDone, NoScan, RunTypes, Scans, others, oldRun
  <2> QED
    BY <2>1 DEF oldRun, RunInv, RunOver, OldRunOver, Old!NothingInScan, NothingInScan, NoEvents
<1>6. CASE ForgetGoneFiles /\ UNCHANGED <<oldRun, others>>
  <2>1. /\ scan.at = "gone"
        /\ UNCHANGED <<watching, events, work, collection, cancelRequested, scanCancelled, clearing, oldRun>>
        /\ \/ scan'.at = "none" /\ sysState' \in {"Error", "Standby"}
           \/ scan'.at \in {"watch", "clean"} /\ sysState' = sysState
    BY <1>6 DEF ForgetGoneFiles, NoScan, RunTypes, Scans, others, oldRun
  <2>2. \A f \in Files : store'[f] \subseteq store[f]
    BY <1>6 DEF ForgetGoneFiles
  <2> QED
    BY <2>1, <2>2
       DEF oldRun, RunInv, RunOver, OldRunOver, Old!NothingInScan, NothingInScan, NoEvents
<1>7. CASE StartWatcher /\ UNCHANGED <<oldRun, others>>
  BY <1>7
     DEF StartWatcher, NoScan, oldRun, others, RunInv, RunOver, OldRunOver, Old!NothingInScan,
         NothingInScan, NoEvents
<1>8. CASE CleanUp /\ UNCHANGED <<oldRun, others>>
  <2>1. /\ scan.at = "clean" /\ scan'.at = "cleanCache"
        /\ UNCHANGED <<collection, sysState, cancelRequested, scanCancelled, work, watching, events,
                       clearing, oldRun>>
    BY <1>8 DEF CleanUp, RunTypes, Scans, others
  <2>2. \A f \in Files : store'[f] \subseteq store[f]
    BY <1>8 DEF CleanUp, NoPoints
  <2> QED
    BY <2>1, <2>2
       DEF oldRun, RunInv, RunOver, OldRunOver, Old!NothingInScan, NothingInScan, NoEvents
<1>9. CASE CleanUpCache /\ UNCHANGED <<oldRun, others>>
  BY <1>9
     DEF CleanUpCache, StopWatcher, NoScan, oldRun, others, RunInv, RunOver, OldRunOver,
         Old!NothingInScan, NothingInScan, NoEvents
<1>10. CASE CancelIndexing
  BY <1>10
     DEF CancelIndexing, StopWatcher, oldRun, RunInv, RunOver, OldRunOver, Old!NothingInScan,
         NothingInScan, NoEvents
<1>11. CASE ClearIndexData
  BY <1>11
     DEF ClearIndexData, StopWatcher, oldRun, RunInv, RunOver, OldRunOver, Old!NothingInScan,
         NothingInScan, NoEvents
<1>12. CASE ClearPoints
  BY <1>12
     DEF ClearPoints, NoPoints, oldRun, RunInv, RunOver, OldRunOver, Old!NothingInScan,
         NothingInScan, NoEvents
<1>13. CASE ClearHashes
  BY <1>13
     DEF ClearHashes, oldRun, RunInv, RunOver, OldRunOver, Old!NothingInScan, NothingInScan,
         NoEvents
<1>14. CASE ClearHashesAgain
  BY <1>14
     DEF ClearHashesAgain, oldRun, RunInv, RunOver, OldRunOver, Old!NothingInScan,
         NothingInScan, NoEvents
<1>15. CASE Restart
  <2>1. NoScan.at = "none" /\ [NoScan EXCEPT !.at = "init"].at = "init" /\ NoWork.at = "none"
    BY DEF NoScan, NoWork
  <2>2. (OldRunOver /\ NothingInScan /\ NoEvents)'
    BY <1>15, <2>1, RestartIs DEF OldRunOver, Old!NothingInScan, NothingInScan, NoEvents, Restart
  <2> QED
    BY <1>15, <2>1, <2>2, RestartIs DEF RunInv, RunOver
<1>16. ASSUME NEW g \in Files, ScanFile(g), UNCHANGED <<oldRun, others>>
       PROVE  RunInv'
  <2>1. PICK r \in Work : Becomes(g, r)
    BY <1>16, ScanFileIs
  <2>2. /\ work[g].at # "none" /\ scan'.at = scan.at /\ collection
        /\ sysState' \in {sysState, IF cancelRequested THEN sysState ELSE "Indexing"}
        /\ UNCHANGED <<watching, events, collection, cancelRequested, scanCancelled, oldRun, clearing>>
    BY <1>16, ScanFileIs DEF ScanFile, RunInv, NothingInScan, others
  <2>3. r.at # "none" => r.at \in {"todo", "parsed", "deleted"}
    BY DEF Work
  <2>4. \A h \in Files \ {g} : work'[h] = work[h]
    BY <2>1 DEF Becomes, RunTypes
  <2> QED
    BY <2>1, <2>2, <2>4, <1>16
       DEF oldRun, RunInv, RunOver, OldRunOver, Old!NothingInScan, NothingInScan, NoEvents
<1>17. ASSUME NEW g \in Files, DeleteOldPoints(g), UNCHANGED <<oldRun, others>>
       PROVE  RunInv'
  <2>1. PICK r \in Work : Becomes(g, r)
    BY <1>17, DeleteOldPointsIs, RetryIs, NoWorkMoves DEF DeleteOldPoints
  <2>2. /\ work[g].at # "none" /\ Same /\ collection
        /\ sysState' \in {sysState, IF cancelRequested THEN sysState ELSE "Indexing"}
        /\ UNCHANGED <<watching, events, collection, cancelRequested, scanCancelled, oldRun, clearing>>
    BY <1>17, DeleteOldPointsIs DEF DeleteOldPoints, RunInv, NothingInScan, others
  <2>3. r.at # "none" => r.at \in {"todo", "parsed", "deleted"}
    BY DEF Work
  <2>4. \A h \in Files \ {g} : work'[h] = work[h]
    BY <2>1 DEF Becomes, RunTypes
  <2> QED
    BY <2>1, <2>2, <2>4, <1>17
       DEF Same, oldRun, RunInv, RunOver, OldRunOver, Old!NothingInScan, NothingInScan, NoEvents
<1>18. ASSUME NEW g \in Files, UpsertPoints(g), UNCHANGED <<oldRun, others>>
       PROVE  RunInv'
  <2>1. PICK r \in Work : Becomes(g, r)
    BY <1>18, UpsertPointsIs, RetryIs, NoWorkMoves DEF UpsertPoints
  <2>2. /\ work[g].at # "none" /\ Same /\ collection
        /\ sysState' \in {sysState, IF cancelRequested THEN sysState ELSE "Indexing"}
        /\ UNCHANGED <<watching, events, collection, cancelRequested, scanCancelled, oldRun, clearing>>
    BY <1>18, UpsertPointsIs DEF UpsertPoints, RunInv, NothingInScan, others
  <2>3. r.at # "none" => r.at \in {"todo", "parsed", "deleted"}
    BY DEF Work
  <2>4. \A h \in Files \ {g} : work'[h] = work[h]
    BY <2>1 DEF Becomes, RunTypes
  <2> QED
    BY <2>1, <2>2, <2>4, <1>18
       DEF Same, oldRun, RunInv, RunOver, OldRunOver, Old!NothingInScan, NothingInScan, NoEvents
<1>19. ASSUME NEW g \in Files, Edit(g)
       PROVE  RunInv'
  BY <1>19
     DEF Edit, oldRun, RunInv, RunOver, OldRunOver, Old!NothingInScan, NothingInScan, NoEvents
<1>20. ASSUME NEW c \in Batches, TriggerBatch(c)
       PROVE  RunInv'
  BY <1>20
     DEF TriggerBatch, Progress, oldRun, others, RunInv, RunOver, OldRunOver, Old!NothingInScan,
         NothingInScan, NoEvents
<1>21. ASSUME NEW c \in Batches, BatchDeletions(c)
       PROVE  RunInv'
  BY <1>21
     DEF BatchDeletions, oldRun, others, RunInv, RunOver, OldRunOver, Old!NothingInScan,
         NothingInScan, NoEvents
<1>22. ASSUME NEW c \in Batches, BatchReads(c)
       PROVE  RunInv'
  BY <1>22
     DEF BatchReads, oldRun, others, RunInv, RunOver, OldRunOver, Old!NothingInScan,
         NothingInScan, NoEvents
<1>23. ASSUME NEW c \in Batches, BatchUpserts(c)
       PROVE  RunInv'
  <2>1. /\ UNCHANGED <<collection, cancelRequested, scanCancelled, scan, work, watching, events,
                       oldRun, clearing>>
        /\ batches[c].reports \in BOOLEAN /\ (batches[c].reports => watching)
        /\ sysState' = IF batches[c].reports THEN "Indexed" ELSE sysState
    BY <1>23 DEF BatchUpserts, Progress, others, Shared, QueueTypes, Batch, BatchInv
  <2>2. ~collection => store' = store
    BY <1>23 DEF BatchUpserts
  <2> QED
    BY <2>1, <2>2
       DEF oldRun, RunInv, RunOver, OldRunOver, Old!NothingInScan, NothingInScan, NoEvents
<1> QED
  BY <1>1, <1>2, <1>3, <1>4, <1>5, <1>6, <1>7, <1>8, <1>9, <1>10, <1>11, <1>12, <1>13, <1>14,
     <1>15, <1>16, <1>17, <1>18, <1>19, <1>20, <1>21, <1>22, <1>23, OldRests
     DEF IndexNext, Indexer, IndexUser, Runs, RunStep, RunInv

LEMMA ProcessedStep ==
    ASSUME Shared, RunTypes, RunInv, ProcessedInv, [IndexNext]_indexVars, ~overlapped'
    PROVE  ProcessedInv'
<1>1. CASE UNCHANGED indexVars
  BY <1>1 DEF indexVars, runVars, oldRun, others, ProcessedInv
<1>2. CASE StartIndexing
  BY <1>2, StartIs DEF BeginRun, ProcessedInv, NoScan
<1>3. CASE VectorStoreReady /\ UNCHANGED <<oldRun, others>>
  <2>1. scan.at = "init" /\ scan.processed = {}
    BY <1>3 DEF VectorStoreReady, ProcessedInv
  <2>2. \/ scan'.at \in {"none", "clean"} \/ (scan'.at \in {"files", "voidCache"} /\ scan'.processed = {})
    BY <1>3, <2>1 DEF VectorStoreReady, ScanBegins, NoScan, RunTypes, Scans
  <2> QED
    BY <2>2 DEF ProcessedInv
<1>4. CASE VoidCache /\ UNCHANGED <<oldRun, others>>
  <2>1. scan.at = "voidCache" /\ scan.processed = {}
    BY <1>4 DEF VoidCache, ProcessedInv
  <2>2. scan'.at = "none" \/ (scan'.at = "files" /\ scan'.processed = {})
    BY <1>4, <2>1 DEF VoidCache, ScanBegins, NoScan, RunTypes, Scans
  <2> QED
    BY <2>2 DEF ProcessedInv
<1>5. CASE FilesDone /\ UNCHANGED <<oldRun, others>>
  BY <1>5 DEF ProcessedInv, RunTypes, Scans, NoScan, FilesDone
<1>6. CASE ForgetGoneFiles /\ UNCHANGED <<oldRun, others>>
  <2>1. scan'.at \in {"none", "watch", "clean"}
    BY <1>6 DEF ForgetGoneFiles, NoScan, RunTypes, Scans
  <2> QED
    BY <2>1 DEF ProcessedInv
<1>7. CASE StartWatcher /\ UNCHANGED <<oldRun, others>>
  BY <1>7 DEF ProcessedInv, NoScan, StartWatcher
<1>8. CASE CleanUp /\ UNCHANGED <<oldRun, others>>
  <2>1. scan'.at = "cleanCache"
    BY <1>8 DEF CleanUp, RunTypes, Scans
  <2> QED
    BY <2>1 DEF ProcessedInv
<1>9. CASE CleanUpCache /\ UNCHANGED <<oldRun, others>>
  BY <1>9 DEF ProcessedInv, NoScan, CleanUpCache
<1>10. CASE CancelIndexing
  BY <1>10 DEF CancelIndexing, ProcessedInv
<1>11. CASE ClearIndexData
  BY <1>11 DEF ClearIndexData, ProcessedInv
<1>12. CASE ClearPoints
  BY <1>12 DEF ClearPoints, ProcessedInv
<1>13. CASE ClearHashes
  BY <1>13 DEF ClearHashes, ProcessedInv
<1>14. CASE ClearHashesAgain
  BY <1>14 DEF ClearHashesAgain, ProcessedInv
<1>15. CASE Restart
  <2>1. NoScan.at = "none" /\ [NoScan EXCEPT !.at = "init"].at = "init"
        /\ [NoScan EXCEPT !.at = "init"].processed = {}
    BY DEF NoScan
  <2> QED
    BY <1>15, <2>1, RestartIs DEF ProcessedInv
<1>16. ASSUME NEW g \in Files, ScanFile(g), UNCHANGED <<oldRun, others>>
       PROVE  ProcessedInv'
  <2>1. PICK r \in Work : Becomes(g, r) /\ r.at # "todo"
    BY <1>16, ScanFileIs
  <2>2. scan.at = "files" /\ scan'.processed \subseteq scan.processed \union {g}
    BY <1>16, ScanFileIs
  <2>3. scan'.at = "files" /\ scan.processed \subseteq Files
    BY <1>16, ScanFileIs DEF RunTypes, Scans
  <2> QED
    BY <2>1, <2>2, <2>3 DEF ProcessedInv, RunTypes, Becomes
<1>17. ASSUME NEW g \in Files, DeleteOldPoints(g), UNCHANGED <<oldRun, others>>
       PROVE  ProcessedInv'
  <2>1. PICK r \in Work : Becomes(g, r) /\ r.at # "todo"
    BY <1>17, DeleteOldPointsIs, RetryIs, NoWorkMoves DEF DeleteOldPoints
  <2>2. Same /\ scan.processed \subseteq Files
    BY <1>17, DeleteOldPointsIs DEF RunTypes, Scans
  <2> QED
    BY <2>1, <2>2 DEF ProcessedInv, RunTypes, Becomes, Same
<1>18. ASSUME NEW g \in Files, UpsertPoints(g), UNCHANGED <<oldRun, others>>
       PROVE  ProcessedInv'
  <2>1. PICK r \in Work : Becomes(g, r) /\ r.at # "todo"
    BY <1>18, UpsertPointsIs, RetryIs, NoWorkMoves DEF UpsertPoints
  <2>2. Same /\ scan.processed \subseteq Files
    BY <1>18, UpsertPointsIs DEF RunTypes, Scans
  <2> QED
    BY <2>1, <2>2 DEF ProcessedInv, RunTypes, Becomes, Same
<1>19. ASSUME NEW g \in Files, Edit(g)
       PROVE  ProcessedInv'
  BY <1>19 DEF Edit, ProcessedInv
<1>20. ASSUME NEW c \in Batches, TriggerBatch(c)
       PROVE  ProcessedInv'
  BY <1>20 DEF TriggerBatch, ProcessedInv
<1>21. ASSUME NEW c \in Batches, BatchDeletions(c)
       PROVE  ProcessedInv'
  BY <1>21 DEF BatchDeletions, ProcessedInv
<1>22. ASSUME NEW c \in Batches, BatchReads(c)
       PROVE  ProcessedInv'
  BY <1>22 DEF BatchReads, ProcessedInv
<1>23. ASSUME NEW c \in Batches, BatchUpserts(c)
       PROVE  ProcessedInv'
  BY <1>23 DEF BatchUpserts, ProcessedInv
<1> QED
  BY <1>1, <1>2, <1>3, <1>4, <1>5, <1>6, <1>7, <1>8, <1>9, <1>10, <1>11, <1>12, <1>13, <1>14,
     <1>15, <1>16, <1>17, <1>18, <1>19, <1>20, <1>21, <1>22, <1>23, OldRests
     DEF IndexNext, Indexer, IndexUser, Runs, RunStep, RunInv

\* The invariants about one file that no gap has hit.
LEMMA EventsStep ==
    ASSUME Shared, RunTypes, RunInv, BatchInv, NEW f \in Files, f \in spoiled \/ EventInv(f),
           f \notin spoiled', [IndexNext]_indexVars, ~overlapped'
    PROVE  EventInv(f)'
<1>1. CASE UNCHANGED indexVars
  BY <1>1 DEF indexVars, runVars, oldRun, others, EventInv
<1>2. CASE StartIndexing
  BY <1>2, StartIs DEF EventInv
<1>3. CASE VectorStoreReady /\ UNCHANGED <<oldRun, others>>
  BY <1>3 DEF VectorStoreReady, EventInv
<1>4. CASE VoidCache /\ UNCHANGED <<oldRun, others>>
  BY <1>4 DEF VoidCache, ClearCacheFile, HashesStay, EventInv
<1>5. CASE FilesDone /\ UNCHANGED <<oldRun, others>>
  BY <1>5 DEF FilesDone, EventInv
<1>6. CASE ForgetGoneFiles /\ UNCHANGED <<oldRun, others>>
  BY <1>6 DEF ForgetGoneFiles, EventInv
<1>7. CASE StartWatcher /\ UNCHANGED <<oldRun, others>>
  BY <1>7 DEF StartWatcher, EventInv
<1>8. CASE CleanUp /\ UNCHANGED <<oldRun, others>>
  BY <1>8 DEF CleanUp, EventInv
<1>9. CASE CleanUpCache /\ UNCHANGED <<oldRun, others>>
  BY <1>9 DEF EventInv, CleanUpCache, StopWatcher
<1>10. CASE CancelIndexing
  BY <1>10 DEF CancelIndexing, EventInv, StopWatcher
<1>11. CASE ClearIndexData
  BY <1>11 DEF ClearIndexData, EventInv, StopWatcher
<1>12. CASE ClearPoints
  BY <1>12 DEF ClearPoints, EventInv
<1>13. CASE ClearHashes
  BY <1>13 DEF ClearHashes, EventInv, RunInv, NoEvents
<1>14. CASE ClearHashesAgain
  BY <1>14 DEF ClearHashesAgain, ClearCacheFile, HashesStay, EventInv
<1>15. CASE Restart
  BY <1>15, RestartIs DEF EventInv
<1>16. ASSUME NEW g \in Files, ScanFile(g), UNCHANGED <<oldRun, others>>
       PROVE  EventInv(f)'
  BY <1>16, ScanFileIs DEF EventInv
<1>17. ASSUME NEW g \in Files, DeleteOldPoints(g), UNCHANGED <<oldRun, others>>
       PROVE  EventInv(f)'
  BY <1>17 DEF DeleteOldPoints, EventInv
<1>18. ASSUME NEW g \in Files, UpsertPoints(g), UNCHANGED <<oldRun, others>>
       PROVE  EventInv(f)'
  BY <1>18, UpsertPointsIs DEF UpsertPoints, EventInv
<1>19. ASSUME NEW g \in Files, Edit(g)
       PROVE  EventInv(f)'
  <2>1. PICK v \in Versions \union {NoFile}, kind \in {"create", "change", "delete"} :
          /\ kind = "delete" <=> v = NoFile
          /\ content' = [content EXCEPT ![g] = v]
          /\ IF watching THEN events' = [events EXCEPT ![g] = kind] ELSE events' = events
          /\ spoiled \subseteq spoiled'
    BY <1>19 DEF Edit
  <2> QED
    BY <2>1 DEF EventInv, RunInv, NoEvents, Shared, FileTypes, QueueTypes
<1>20. ASSUME NEW c \in Batches, TriggerBatch(c)
       PROVE  EventInv(f)'
  BY <1>20 DEF TriggerBatch, EventInv
<1>21. ASSUME NEW c \in Batches, BatchDeletions(c)
       PROVE  EventInv(f)'
  BY <1>21 DEF BatchDeletions, EventInv
<1>22. ASSUME NEW c \in Batches, BatchReads(c)
       PROVE  EventInv(f)'
  BY <1>22 DEF BatchReads, EventInv
<1>23. ASSUME NEW c \in Batches, BatchUpserts(c)
       PROVE  EventInv(f)'
  BY <1>23 DEF BatchUpserts, EventInv
<1> QED
  BY <1>1, <1>2, <1>3, <1>4, <1>5, <1>6, <1>7, <1>8, <1>9, <1>10, <1>11, <1>12, <1>13, <1>14,
     <1>15, <1>16, <1>17, <1>18, <1>19, <1>20, <1>21, <1>22, <1>23, OldRests
     DEF IndexNext, Indexer, IndexUser, Runs, RunStep, RunInv

LEMMA HolderStep ==
    ASSUME Shared, RunTypes, RunInv, BatchInv, NEW f \in Files, f \in spoiled \/ HolderInv(f),
           f \notin spoiled', [IndexNext]_indexVars, ~overlapped'
    PROVE  HolderInv(f)'
<1>1. CASE UNCHANGED indexVars
  BY <1>1 DEF indexVars, runVars, oldRun, others, HolderInv, InBatch, Pending
<1>2. CASE StartIndexing
  <2>1. /\ spoiled \subseteq spoiled' /\ batches' = batches /\ f \notin spoiled /\ ~InBatch(f)
    BY <1>2, StartIs
  <2> QED
    BY <2>1 DEF HolderInv, InBatch, Pending
<1>3. CASE VectorStoreReady /\ UNCHANGED <<oldRun, others>>
  <2>1. scan.at # "none" /\ batches' = batches /\ spoiled' = spoiled
    BY <1>3 DEF VectorStoreReady
  <2> QED
    BY <2>1 DEF HolderInv, InBatch, Pending
<1>4. CASE VoidCache /\ UNCHANGED <<oldRun, others>>
  <2>1. scan.at # "none" /\ batches' = batches /\ spoiled \subseteq spoiled'
    BY <1>4 DEF VoidCache, ClearCacheFile, HashesStay
  <2> QED
    BY <2>1 DEF HolderInv, InBatch, Pending
<1>5. CASE FilesDone /\ UNCHANGED <<oldRun, others>>
  BY <1>5 DEF FilesDone, HolderInv, InBatch, Pending
<1>6. CASE ForgetGoneFiles /\ UNCHANGED <<oldRun, others>>
  BY <1>6 DEF ForgetGoneFiles, HolderInv, InBatch, Pending
<1>7. CASE StartWatcher /\ UNCHANGED <<oldRun, others>>
  BY <1>7 DEF StartWatcher, HolderInv, InBatch, Pending
<1>8. CASE CleanUp /\ UNCHANGED <<oldRun, others>>
  <2>1. scan.at # "none" /\ batches' = batches /\ spoiled \subseteq spoiled'
    BY <1>8 DEF CleanUp
  <2> QED
    BY <2>1 DEF HolderInv, InBatch, Pending
<1>9. CASE CleanUpCache /\ UNCHANGED <<oldRun, others>>
  <2>1. scan.at # "none" /\ spoiled \subseteq spoiled'
    BY <1>9 DEF CleanUpCache, ClearCacheFile, HashesStay
  <2>2. \A b \in Batches : Pending(b, f)' <=> Pending(b, f)
    BY <1>9, StopIs DEF CleanUpCache, Pending, Shared
  <2> QED
    BY <2>1, <2>2 DEF HolderInv, InBatch, Pending
<1>10. CASE CancelIndexing
  BY <1>10, StopIs DEF CancelIndexing, Shared, HolderInv, InBatch, Pending
<1>11. CASE ClearIndexData
  BY <1>11, StopIs DEF ClearIndexData, Shared, HolderInv, InBatch, Pending
<1>12. CASE ClearPoints
  BY <1>12 DEF ClearPoints, HolderInv, InBatch, Pending
<1>13. CASE ClearHashes
  <2>1. RunOver /\ UNCHANGED <<scan, work, batches>>
    BY <1>13 DEF ClearHashes, RunInv
  <2>2. f \notin spoiled \/ ~InBatch(f)
    BY <1>13 DEF ClearHashes, HashesGone, HashesStay
  <2> QED
    BY <2>1, <2>2 DEF RunOver, NothingInScan, HolderInv, InBatch, Pending
<1>14. CASE ClearHashesAgain
  BY <1>14 DEF ClearHashesAgain, ClearCacheFile, HashesStay, HolderInv, InBatch, Pending
<1>15. CASE Restart
  <2>1. \A b \in Batches : ~Pending(b, f)'
    BY <1>15, RestartIs DEF Pending, NoBatch
  <2> QED
    BY <2>1 DEF HolderInv, InBatch, Pending
<1>16. ASSUME NEW g \in Files, ScanFile(g), UNCHANGED <<oldRun, others>>
       PROVE  HolderInv(f)'
  <2>1. scan.at # "none" /\ batches' = batches /\ spoiled \subseteq spoiled'
    BY <1>16, ScanFileIs
  <2> QED
    BY <2>1 DEF HolderInv, InBatch, Pending
<1>17. ASSUME NEW g \in Files, DeleteOldPoints(g), UNCHANGED <<oldRun, others>>
       PROVE  HolderInv(f)'
  <2>1. PICK r \in Work : Becomes(g, r)
    BY <1>17, DeleteOldPointsIs, RetryIs, NoWorkMoves DEF DeleteOldPoints
  <2>2. work[g].at # "none" /\ Same
    BY <1>17, DeleteOldPointsIs DEF DeleteOldPoints
  <2>3. batches' = batches /\ spoiled \subseteq spoiled'
    BY <1>17, DeleteOldPointsIs DEF DeleteOldPoints
  <2> QED
    BY <2>1, <2>2, <2>3 DEF Becomes, Same, RunTypes, HolderInv, InBatch, Pending
<1>18. ASSUME NEW g \in Files, UpsertPoints(g), UNCHANGED <<oldRun, others>>
       PROVE  HolderInv(f)'
  <2>1. PICK r \in Work : Becomes(g, r)
    BY <1>18, UpsertPointsIs, RetryIs, NoWorkMoves DEF UpsertPoints
  <2>2. work[g].at # "none" /\ Same
    BY <1>18, UpsertPointsIs DEF UpsertPoints
  <2>3. batches' = batches /\ spoiled \subseteq spoiled'
    BY <1>18, UpsertPointsIs DEF UpsertPoints
  <2> QED
    BY <2>1, <2>2, <2>3 DEF Becomes, Same, RunTypes, HolderInv, InBatch, Pending
<1>19. ASSUME NEW g \in Files, Edit(g)
       PROVE  HolderInv(f)'
  BY <1>19 DEF Edit, HolderInv, InBatch, Pending
<1>20. ASSUME NEW c \in Batches, TriggerBatch(c)
       PROVE  HolderInv(f)'
  <2>1. /\ spoiled \subseteq spoiled' /\ scan' = scan /\ work' = work
        /\ scan.at = "none" /\ work[f].at = "none"
        /\ batches[c].at = "none" /\ (events[f] # "none" => ~InBatch(f))
    BY <1>20 DEF TriggerBatch, RunInv, RunOver, NothingInScan, NoEvents
  <2>2. ASSUME NEW b \in Batches \ {c} PROVE Pending(b, f)' <=> Pending(b, f)
    BY <1>20, TriggerIs DEF Others, Pending, Shared
  <2>3. Pending(c, f)' <=> events[f] # "none"
    BY <1>20, TriggerIs DEF Pending, Shared
  <2>4. ~Pending(c, f)
    BY <2>1 DEF BatchInv
  <2> QED
    BY <2>1, <2>2, <2>3, <2>4 DEF HolderInv, InBatch, Pending
<1>21. ASSUME NEW c \in Batches, BatchDeletions(c)
       PROVE  HolderInv(f)'
  <2>1. scan' = scan /\ work' = work /\ spoiled \subseteq spoiled'
    BY <1>21 DEF BatchDeletions
  <2>2. ASSUME NEW b \in Batches, Pending(b, f)'
        PROVE  Pending(b, f)
    BY <1>21, <2>2, DeletionsIs DEF Others, Pending, Shared
  <2> QED
    BY <2>1, <2>2 DEF HolderInv, InBatch, Pending
<1>22. ASSUME NEW c \in Batches, BatchReads(c)
       PROVE  HolderInv(f)'
  <2>1. scan' = scan /\ work' = work /\ spoiled \subseteq spoiled'
    BY <1>22 DEF BatchReads
  <2>2. ASSUME NEW b \in Batches, Pending(b, f)'
        PROVE  Pending(b, f)
    BY <1>22, <2>2, ReadsIs DEF Others, Pending, Shared
  <2> QED
    BY <2>1, <2>2 DEF HolderInv, InBatch, Pending
<1>23. ASSUME NEW c \in Batches, BatchUpserts(c)
       PROVE  HolderInv(f)'
  <2>1. scan' = scan /\ work' = work /\ spoiled \subseteq spoiled'
    BY <1>23 DEF BatchUpserts
  <2>2. ASSUME NEW b \in Batches, Pending(b, f)'
        PROVE  Pending(b, f)
    BY <1>23, <2>2, UpsertsIs DEF Others, Pending, Shared
  <2> QED
    BY <2>1, <2>2 DEF HolderInv, InBatch, Pending
<1> QED
  BY <1>1, <1>2, <1>3, <1>4, <1>5, <1>6, <1>7, <1>8, <1>9, <1>10, <1>11, <1>12, <1>13, <1>14,
     <1>15, <1>16, <1>17, <1>18, <1>19, <1>20, <1>21, <1>22, <1>23, OldRests
     DEF IndexNext, Indexer, IndexUser, Runs, RunStep, RunInv

LEMMA PointsStep ==
    ASSUME Shared, RunTypes, RunInv, BatchInv, NEW f \in Files,
           f \in spoiled \/ (HolderInv(f) /\ PointsInv(f)),
           f \notin spoiled', [IndexNext]_indexVars, ~overlapped'
    PROVE  PointsInv(f)'
<1>1. CASE UNCHANGED indexVars
  BY <1>1 DEF indexVars, runVars, oldRun, others, PointsInv, Void, Stored, Upserts
<1>2. CASE StartIndexing
  <2>1. /\ UNCHANGED <<content, cache, store, batches, collection, clearing>>
        /\ spoiled \subseteq spoiled' /\ RunOver
    BY <1>2, StartIs
  <2>2. work'[f].at = "none" /\ (scan'.at = "none" \/ (scan'.at = "init" /\ clearing = "none"))
    <3>1. CASE BeginRun /\ clearing = "none"
      <4>1. [NoScan EXCEPT !.at = "init"].at = "init"
        BY DEF NoScan
      <4> QED
        BY <3>1, <4>1 DEF BeginRun, NoWork
    <3>2. CASE UNCHANGED <<scan, work>>
      BY <2>1, <3>2 DEF RunOver, NothingInScan
    <3> QED
      BY <1>2, <3>1, <3>2, StartIs
  <2>3. Void' => Void \/ ~collection
    BY <2>1, <2>2 DEF Void, RunOver
  <2>5. ~collection => store[f] = {}
    BY DEF RunInv
  <2>6. Void => Void'
    BY <2>1, <2>2 DEF Void, RunOver
  <2> QED
    BY <2>1, <2>2, <2>3, <2>5, <2>6 DEF PointsInv, Stored, Upserts
<1>3. CASE VectorStoreReady /\ UNCHANGED <<oldRun, others>>
  <2>1. scan.at = "init" /\ UNCHANGED <<content, cache, store, batches, spoiled, clearing>>
    BY <1>3 DEF VectorStoreReady, others
  <2>2. work'[f].at \in {"none", "todo"}
    BY <1>3, <2>1 DEF VectorStoreReady, ScanBegins, NoWork, RunInv, NothingInScan
  <2>3. Void' = Void
    BY <1>3, <2>1
       DEF VectorStoreReady, ScanBegins, Void, NoScan, RunTypes, Scans, Shared, FlagTypes,
           RunInv
  <2> QED
    BY <2>1, <2>2, <2>3 DEF PointsInv, Stored, Upserts
<1>4. CASE VoidCache /\ UNCHANGED <<oldRun, others>>
  <2>1. scan.at = "voidCache" /\ Void /\ UNCHANGED <<content, store, batches>> /\ spoiled \subseteq spoiled'
    BY <1>4 DEF VoidCache, ClearCacheFile, HashesStay, Void
  <2>2. cache'[f] = NoFile
    BY <1>4 DEF VoidCache, ClearCacheFile, HashesStay, NoHashes
  <2>3. work'[f].at \in {"none", "todo"}
    BY <1>4, <2>1 DEF VoidCache, ScanBegins, NoWork, RunInv, NothingInScan
  <2> QED
    BY <2>1, <2>2, <2>3 DEF PointsInv, Stored, Upserts
<1>5. CASE FilesDone /\ UNCHANGED <<oldRun, others>>
  <2>1. UNCHANGED <<content, cache, store, collection, clearing, work, batches>> /\ spoiled \subseteq spoiled'
    BY <1>5 DEF FilesDone, others
  <2>2. scan.at \notin {"init", "clean", "voidCache", "cleanCache"} /\ collection
    BY <1>5 DEF FilesDone, RunInv
  <2>3. Void' = Void
    BY <1>5, <2>1, <2>2 DEF Void, FilesDone, NoScan, RunTypes, Scans, RunInv
  <2> QED
    BY <2>1, <2>2, <2>3 DEF PointsInv, Stored, Upserts
<1>6. CASE ForgetGoneFiles /\ UNCHANGED <<oldRun, others>>
  <2>1. scan.at = "gone" /\ collection /\ UNCHANGED <<content, collection, clearing, work, batches, spoiled>>
    BY <1>6 DEF ForgetGoneFiles, RunInv, others
  <2>2. \/ store'[f] = {} /\ cache'[f] = NoFile
        \/ store'[f] = store[f] /\ cache'[f] = cache[f]
    BY <1>6 DEF ForgetGoneFiles
  <2>3. work[f].at = "none"
    BY <2>1 DEF RunInv, NothingInScan
  <2>4. scan'.at \in {"none", "watch", "clean"}
    BY <1>6 DEF ForgetGoneFiles, NoScan, RunTypes, Scans
  <2>5. ~Void /\ ~Void'
    BY <2>1, <2>4 DEF Void
  <2> QED
    BY <2>1, <2>2, <2>3, <2>5 DEF PointsInv, Stored, Upserts
<1>7. CASE StartWatcher /\ UNCHANGED <<oldRun, others>>
  <2>1. UNCHANGED <<content, cache, store, collection, clearing, work, batches>> /\ spoiled \subseteq spoiled'
    BY <1>7 DEF StartWatcher, others
  <2>2. scan.at \notin {"init", "clean", "voidCache", "cleanCache"} /\ collection
    BY <1>7 DEF StartWatcher, RunInv
  <2>3. Void' = Void
    BY <1>7, <2>1, <2>2 DEF Void, StartWatcher, NoScan, RunTypes, Scans, RunInv
  <2> QED
    BY <2>1, <2>2, <2>3 DEF PointsInv, Stored, Upserts
<1>8. CASE CleanUp /\ UNCHANGED <<oldRun, others>>
  <2>1. /\ scan.at = "clean" /\ UNCHANGED <<content, cache, work, batches>>
        /\ store'[f] = {} /\ spoiled \subseteq spoiled'
    BY <1>8 DEF CleanUp, NoPoints
  <2>2. work[f].at = "none"
    BY <2>1 DEF RunInv, NothingInScan
  <2>3. Void'
    BY <1>8 DEF CleanUp, RunTypes, Scans, Void
  <2> QED
    BY <2>1, <2>2, <2>3 DEF PointsInv, Stored, Upserts
<1>9. CASE CleanUpCache /\ UNCHANGED <<oldRun, others>>
  <2>1. /\ scan.at = "cleanCache" /\ Void /\ UNCHANGED <<content, store, work>>
        /\ cache'[f] = NoFile /\ spoiled \subseteq spoiled'
    BY <1>9 DEF CleanUpCache, ClearCacheFile, HashesStay, NoHashes, Void
  <2>2. work[f].at = "none"
    BY <2>1 DEF RunInv, NothingInScan
  <2> QED
    BY <2>1, <2>2 DEF PointsInv, Stored, Upserts
<1>10. CASE CancelIndexing
  <2>1. UNCHANGED <<content, cache, store, scan, work, clearing, collection, spoiled>>
    BY <1>10 DEF CancelIndexing
  <2>2. ASSUME NEW b \in Batches
        PROVE  /\ batches'[b].at = batches[b].at /\ batches'[b].evs = batches[b].evs
               /\ batches'[b].error = batches[b].error
    BY <1>10, StopIs DEF CancelIndexing, Shared
  <2>3. Void' = Void
    BY <2>1 DEF Void
  <2> QED
    BY <2>1, <2>2, <2>3 DEF PointsInv, Stored, Upserts
<1>11. CASE ClearIndexData
  <2>1. UNCHANGED <<content, cache, store, scan, work, collection, spoiled>>
    BY <1>11 DEF ClearIndexData
  <2>2. ASSUME NEW b \in Batches
        PROVE  /\ batches'[b].at = batches[b].at /\ batches'[b].evs = batches[b].evs
               /\ batches'[b].error = batches[b].error
    BY <1>11, StopIs DEF ClearIndexData, Shared
  <2>3. Void' = Void
    BY <1>11, <2>1 DEF ClearIndexData, Void
  <2> QED
    BY <2>1, <2>2, <2>3 DEF PointsInv, Stored, Upserts
<1>12. CASE ClearPoints
  <2>1. /\ RunOver /\ UNCHANGED <<content, cache, work, scan, batches, spoiled>>
        /\ clearing = "points" /\ clearing' = "hashes"
        /\ \/ store' = NoPoints /\ ~collection'
           \/ UNCHANGED <<store, collection>>
    BY <1>12 DEF ClearPoints, RunInv
  <2>2. work[f].at = "none" /\ ~Void
    BY <2>1 DEF RunOver, NothingInScan, Void
  <2>3. CASE store' = NoPoints /\ ~collection'
    <3>1. Void' /\ store'[f] = {}
      BY <2>1, <2>3 DEF Void, NoPoints
    <3> QED
      BY <2>1, <2>2, <3>1 DEF PointsInv, Stored, Upserts
  <2>4. CASE UNCHANGED <<store, collection>>
    <3>1. Void' => store[f] = {}
      BY <2>1, <2>4 DEF Void, RunInv, RunOver
    <3> QED
      BY <2>1, <2>2, <2>4, <3>1 DEF PointsInv, Stored, Upserts
  <2> QED
    BY <2>1, <2>3, <2>4
<1>13. CASE ClearHashes
  <2>1. RunOver /\ UNCHANGED <<content, store, work, batches>>
    BY <1>13 DEF ClearHashes, RunInv
  <2>2. cache'[f] = NoFile /\ store[f] = {}
    BY <1>13 DEF ClearHashes, HashesGone, HashesStay, NoHashes, PointsInv
  <2>3. work[f].at = "none"
    BY <2>1 DEF RunOver, NothingInScan
  <2> QED
    BY <2>1, <2>2, <2>3 DEF PointsInv, Stored, Upserts
<1>14. CASE ClearHashesAgain
  <2>1. RunOver /\ UNCHANGED <<content, store, work, batches>>
    BY <1>14 DEF ClearHashesAgain, RunInv
  <2>2. cache'[f] = NoFile /\ store[f] = {}
    BY <1>14 DEF ClearHashesAgain, ClearCacheFile, HashesStay, NoHashes, PointsInv
  <2>3. work[f].at = "none"
    BY <2>1 DEF RunOver, NothingInScan
  <2> QED
    BY <2>1, <2>2, <2>3 DEF PointsInv, Stored, Upserts
<1>15. CASE Restart
  <2>1. /\ UNCHANGED <<content, cache, store, collection>> /\ spoiled \subseteq spoiled' /\ clearing' = "none"
        /\ work'[f].at = "none" /\ \A b \in Batches : batches'[b].at = "none"
        /\ scan.at \in {"voidCache", "cleanCache"} => cache[f] = NoFile
        /\ \/ sysState = "Indexed" /\ scan'.at = "none"
           \/ sysState # "Indexed" /\ scan'.at = "init"
    <3>1. NoScan.at = "none" /\ [NoScan EXCEPT !.at = "init"].at = "init" /\ NoWork.at = "none"
          /\ NoBatch.at = "none"
      BY DEF NoScan, NoWork, NoBatch
    <3> QED
      BY <1>15, <3>1, RestartIs
  <2>2. PointsInv(f) /\ (~collection => store[f] = {})
    BY <2>1 DEF RunInv
  <2>3. sysState = "Indexed" => ~Void
    BY DEF Void, RunInv, RunOver
  <2>4. Void' => store[f] = {}
    BY <2>1, <2>2 DEF Void
  <2>5. Void => Void' \/ cache[f] = NoFile
    BY <2>1, <2>3 DEF Void
  <2> QED
    BY <2>1, <2>2, <2>4, <2>5 DEF PointsInv, Stored, Upserts
<1>16. ASSUME NEW g \in Files, ScanFile(g), UNCHANGED <<oldRun, others>>
       PROVE  PointsInv(f)'
  <2>1. /\ scan.at = "files" /\ scan'.at = "files"
        /\ UNCHANGED <<content, store, collection, batches, clearing>> /\ spoiled \subseteq spoiled'
    BY <1>16, ScanFileIs DEF others
  <2>2. PICK r \in Work :
          /\ Becomes(g, r)
          /\ \/ r.at = "none" /\ cache' = cache
             \/ /\ r.at = "none" /\ content[g] = Blank /\ cache' = [cache EXCEPT ![g] = Blank]
                /\ store[g] # {} => g \in spoiled'
             \/ r.at = "parsed" /\ r.isNew = (cache[g] = NoFile) /\ cache[g] # content[g] /\ cache' = cache
    BY <1>16, ScanFileIs
  <2>3. ~Void /\ ~Void' /\ Stored(f)' = Stored(f)
    BY <2>1 DEF Void, RunInv, Stored
  <2>4. CASE f = g
    <3>1. work'[f] = r /\ cache'[f] \in {cache[f], Blank}
      BY <2>2, <2>4 DEF Becomes, RunTypes, Shared, FileTypes
    <3>2. CASE r.at = "none" /\ cache' = cache
      BY <2>1, <2>3, <3>1, <3>2 DEF PointsInv, Upserts
    <3>3. CASE /\ r.at = "none" /\ content[g] = Blank /\ cache' = [cache EXCEPT ![g] = Blank]
               /\ store[g] # {} => g \in spoiled'
      <4>1. store[f] = {} /\ Stored(f) = {} /\ cache'[f] = Blank
        BY <2>4, <3>3 DEF Stored, Shared, FileTypes
      <4> QED
        BY <2>1, <2>3, <3>1, <3>3, <4>1 DEF PointsInv, Upserts
    <3>4. CASE r.at = "parsed" /\ r.isNew = (cache[g] = NoFile) /\ cache[g] # content[g] /\ cache' = cache
      BY <2>1, <2>3, <2>4, <3>1, <3>4 DEF PointsInv, Upserts
    <3> QED
      BY <2>2, <3>2, <3>3, <3>4
  <2>5. CASE f # g
    <3>1. work'[f] = work[f] /\ cache'[f] = cache[f]
      BY <2>2, <2>5 DEF Becomes, RunTypes, Shared, FileTypes
    <3> QED
      BY <2>1, <2>3, <3>1 DEF PointsInv, Upserts
  <2> QED
    BY <2>4, <2>5
<1>17. ASSUME NEW g \in Files, DeleteOldPoints(g), UNCHANGED <<oldRun, others>>
       PROVE  PointsInv(f)'
  <2>1. UNCHANGED <<content, cache, collection, batches, spoiled, clearing>> /\ scan'.at = scan.at
    BY <1>17, DeleteOldPointsIs DEF DeleteOldPoints, Same, others
  <2>2. work[g].at = "parsed" /\ ~Void /\ ~Void'
    BY <1>17, <2>1 DEF DeleteOldPoints, RunInv, NothingInScan, Void
  <2>3. PICK r \in Work :
          /\ Becomes(g, r)
          /\ r.at # "none" => r.isNew = work[g].isNew /\ r.at \in {"parsed", "deleted"}
          /\ \/ r.at # "deleted" /\ store' = store
             \/ r.at = "deleted" /\ store' = IF work[g].isNew THEN store ELSE [store EXCEPT ![g] = {}]
    BY <1>17, <2>2, DeleteOldPointsIs, RetryIs, NoWorkMoves
  <2>4. CASE f # g
    <3>1. work'[f] = work[f] /\ store'[f] = store[f]
      BY <2>3, <2>4 DEF Becomes, RunTypes, Shared, FileTypes
    <3> QED
      BY <2>1, <2>2, <3>1 DEF PointsInv, Stored, Upserts
  <2>5. CASE f = g
    <3>1. work'[f] = r /\ (store'[f] = store[f] \/ store'[f] = {})
      BY <2>3, <2>5 DEF Becomes, RunTypes, Shared, FileTypes
    <3>2. PointsInv(f)
      BY <2>1
    <3>3. r.at = "deleted" => store'[f] = {}
      BY <2>2, <2>3, <2>5, <3>2 DEF PointsInv, Shared, FileTypes
    <3>4. r.at # "deleted" => store'[f] = store[f]
      BY <2>3
    <3>5. r.at # "none" => r.isNew = (cache[f] = NoFile) /\ (content[f] # NoFile => cache[f] # content[f])
      BY <2>2, <2>3, <2>5, <3>2 DEF PointsInv
    <3> QED
      BY <2>1, <2>2, <2>5, <3>1, <3>2, <3>3, <3>4, <3>5 DEF PointsInv, Stored, Upserts
  <2> QED
    BY <2>4, <2>5
<1>18. ASSUME NEW g \in Files, UpsertPoints(g), UNCHANGED <<oldRun, others>>
       PROVE  PointsInv(f)'
  <2>1. /\ UNCHANGED <<content, collection, batches, clearing>> /\ scan'.at = scan.at
        /\ spoiled \subseteq spoiled'
    BY <1>18, UpsertPointsIs DEF UpsertPoints, Same, others
  <2>2. /\ work[g].at = "deleted" /\ ~Void /\ ~Void' /\ work[g].v \in {1, 2}
    BY <1>18, <2>1 DEF UpsertPoints, RunInv, NothingInScan, Void, RunTypes, Work
  <2> DEFINE More == store' = [store EXCEPT ![g] = store[g] \union {work[g].v}]
  <2>3. PICK r \in Work :
          /\ Becomes(g, r)
          /\ r.at # "none" => r.at = "parsed" /\ r.isNew = work[g].isNew
          /\ \/ cache' = cache /\ store' = store
             \/ cache' = cache /\ More /\ (store' # store /\ work[g].isNew => g \in spoiled')
             \/ cache' = [cache EXCEPT ![g] = work[g].v] /\ More /\ r.at = "none"
    <3>1. CASE Retry(g)
      <4>1. PICK r \in Work : Becomes(g, r) /\ (r.at # "none" => r.at = "parsed" /\ r.isNew = work[g].isNew)
        BY <2>2, <3>1, RetryIs, NoWorkMoves
      <4>2. \/ cache' = cache /\ store' = store
            \/ cache' = cache /\ More /\ (store' # store /\ work[g].isNew => g \in spoiled')
            \/ cache' = [cache EXCEPT ![g] = work[g].v] /\ More /\ Becomes(g, NoWork)
        BY <1>18, UpsertPointsIs
      <4> QED
        BY <4>1, <4>2, NoWorkMoves
    <3>2. CASE ~Retry(g)
      <4>1. /\ Becomes(g, NoWork)
            /\ \/ cache' = cache /\ store' = store
               \/ cache' = [cache EXCEPT ![g] = work[g].v] /\ More
        BY <1>18, <3>2, UpsertPointsIs
      <4> QED
        BY <4>1, NoWorkMoves
    <3> QED
      BY <3>1, <3>2
  <2>4. CASE f # g
    <3>1. work'[f] = work[f] /\ store'[f] = store[f] /\ cache'[f] = cache[f]
      BY <2>3, <2>4 DEF Becomes, RunTypes, Shared, FileTypes
    <3> QED
      BY <2>1, <2>2, <3>1 DEF PointsInv, Stored, Upserts
  <2>5. CASE f = g
    <3>1. work'[f] = r
      BY <2>3, <2>5 DEF Becomes, RunTypes
    <3>2. PointsInv(f) /\ HolderInv(f)
      BY <2>1
    <3>3. \A b \in Batches : ~Upserts(b, f)'
      BY <2>1, <2>2, <2>5, <3>2 DEF HolderInv, InBatch, Upserts
    <3>4. /\ store[f] = {} /\ work[g].isNew = (cache[f] = NoFile)
          /\ content[f] # NoFile => cache[f] # content[f]
      BY <2>2, <2>5, <3>2 DEF PointsInv
    <3>5. CASE cache' = cache /\ store' = store
      BY <2>1, <2>2, <2>3, <2>5, <3>1, <3>2, <3>3, <3>4, <3>5 DEF PointsInv, Stored
    <3>6. CASE cache' = cache /\ More /\ (store' # store /\ work[g].isNew => g \in spoiled')
      <4>1. store' # store
        BY <2>5, <3>4, <3>6 DEF Shared, FileTypes
      <4> QED
        BY <2>1, <2>2, <2>3, <2>5, <3>1, <3>3, <3>4, <3>6, <4>1 DEF PointsInv, Stored
    <3>7. CASE cache' = [cache EXCEPT ![g] = work[g].v] /\ More /\ r.at = "none"
      <4>1. cache'[f] = work[g].v /\ store'[f] = {work[g].v} /\ work[g].v \notin {NoFile, Blank}
        BY <2>2, <2>5, <3>4, <3>7, RunAssumption DEF Shared, FileTypes, Versions, Blank
      <4> QED
        BY <2>1, <2>2, <3>1, <3>3, <3>7, <4>1 DEF PointsInv, Stored
    <3> QED
      BY <2>3, <3>5, <3>6, <3>7
  <2> QED
    BY <2>4, <2>5
<1>19. ASSUME NEW g \in Files, Edit(g)
       PROVE  PointsInv(f)'
  <2>1. PICK v \in Versions \union {NoFile} :
          /\ content' = [content EXCEPT ![g] = v]
          /\ v # NoFile /\ cache[g] = v => g \in spoiled'
    BY <1>19 DEF Edit
  <2>2. /\ UNCHANGED <<cache, store, work, batches, scan, collection, clearing>> /\ spoiled \subseteq spoiled'
    BY <1>19 DEF Edit
  <2>3. Void' = Void
    BY <2>2 DEF Void
  <2>4. CASE f = g
    <3>1. content'[f] # NoFile => cache[f] # content'[f]
      BY <2>1, <2>4 DEF Shared, FileTypes
    <3> QED
      BY <2>2, <2>3, <3>1 DEF PointsInv, Upserts
  <2>5. CASE f # g
    <3>1. content'[f] = content[f]
      BY <2>1, <2>5 DEF Shared, FileTypes
    <3> QED
      BY <2>2, <2>3, <3>1 DEF PointsInv, Stored, Upserts
  <2> QED
    BY <2>4, <2>5
<1>20. ASSUME NEW c \in Batches, TriggerBatch(c)
       PROVE  PointsInv(f)'
  <2>1. UNCHANGED <<content, work, scan, collection, clearing>> /\ spoiled \subseteq spoiled'
    BY <1>20 DEF TriggerBatch, others
  <2>2. ASSUME NEW b \in Batches \ {c} PROVE batches'[b] = batches[b]
    BY <1>20, TriggerIs DEF Others, Shared
  <2>3. Void' = Void /\ Stored(f)' = Stored(f)
    BY <2>1 DEF Void, Stored
  <2>4. UNCHANGED <<cache, store>>
    BY <1>20 DEF TriggerBatch
  <2>5. batches'[c].at = "clear"
    BY <1>20, TriggerIs DEF Shared
  <2> QED
    BY <2>1, <2>2, <2>3, <2>4, <2>5 DEF PointsInv, Upserts
<1>21. ASSUME NEW c \in Batches, BatchDeletions(c)
       PROVE  PointsInv(f)'
  <2>1. UNCHANGED <<content, work, scan, collection, clearing>> /\ spoiled \subseteq spoiled'
    BY <1>21 DEF BatchDeletions, others
  <2>2. ASSUME NEW b \in Batches \ {c} PROVE batches'[b] = batches[b]
    BY <1>21, DeletionsIs DEF Others, Shared
  <2>3. Void' = Void /\ Stored(f)' = Stored(f)
    BY <2>1 DEF Void, Stored
  <2>4. batches'[c].at = "read" /\ batches'[c].evs = batches[c].evs
    BY <1>21, DeletionsIs DEF Shared
  <2>5. PointsInv(f) /\ HolderInv(f)
    BY <2>1
  <2>6. CASE store' = store /\ cache' = cache /\ batches'[c].error
    BY <2>1, <2>2, <2>3, <2>5, <2>6 DEF PointsInv, Upserts
  <2>7. CASE ~(store' = store /\ cache' = cache /\ batches'[c].error)
    <3>1. /\ store'[f] = IF batches[c].evs[f] \in {"delete", "change"} THEN {} ELSE store[f]
          /\ cache'[f] = IF batches[c].evs[f] = "delete" THEN NoFile ELSE cache[f]
          /\ ~Spoils(f, batches[c].evs[f])
      <4>1. \/ /\ batches' = [batches EXCEPT ![c].at = "read", ![c].error = TRUE]
               /\ UNCHANGED <<store, cache>>
            \/ /\ store'[f] = IF batches[c].evs[f] \in {"delete", "change"} THEN {} ELSE store[f]
               /\ cache'[f] = IF batches[c].evs[f] = "delete" THEN NoFile ELSE cache[f]
               /\ ~Spoils(f, batches[c].evs[f])
        BY <1>21 DEF BatchDeletions
      <4>2. batches' = [batches EXCEPT ![c].at = "read", ![c].error = TRUE] => batches'[c].error
        BY DEF Shared, QueueTypes, Batch
      <4> QED
        BY <2>7, <4>1, <4>2
    <3>2. CASE batches[c].evs[f] = "none"
      BY <2>1, <2>2, <2>3, <2>4, <2>5, <3>1, <3>2 DEF PointsInv, Upserts
    <3>3. CASE batches[c].evs[f] # "none"
      <4>1. work[f].at = "none" /\ \A b \in Batches \ {c} : ~Upserts(b, f)
        BY <2>5, <3>3 DEF HolderInv, InBatch, Pending, Upserts
      <4>2. batches[c].evs[f] = "create" => store[f] = {}
        BY <3>1 DEF Spoils
      <4>3. batches[c].evs[f] = "change" => cache[f] # content[f]
        BY <3>1 DEF Spoils
      <4>4. batches[c].evs[f] \in {"create", "change", "delete"}
        BY <3>3 DEF Shared, QueueTypes, Batch, Kinds
      <4>5. store'[f] = {} /\ (cache'[f] = cache[f] \/ cache'[f] = NoFile)
        BY <3>1, <4>2, <4>4
      <4>6. content[f] # NoFile /\ cache'[f] = content[f] => Void \/ Stored(f) = {}
        <5>1. CASE batches[c].evs[f] = "create"
          BY <2>5, <3>1, <4>2, <5>1 DEF PointsInv
        <5>2. CASE batches[c].evs[f] # "create"
          BY <3>1, <4>3, <4>4, <5>2
        <5> QED
          BY <5>1, <5>2
      <4> QED
        BY <2>1, <2>3, <4>1, <4>5, <4>6 DEF PointsInv
    <3> QED
      BY <3>2, <3>3
  <2> QED
    BY <2>6, <2>7
<1>22. ASSUME NEW c \in Batches, BatchReads(c)
       PROVE  PointsInv(f)'
  <2>1. UNCHANGED <<content, work, scan, collection, clearing>> /\ spoiled \subseteq spoiled'
    BY <1>22 DEF BatchReads, others
  <2>2. ASSUME NEW b \in Batches \ {c} PROVE batches'[b] = batches[b]
    BY <1>22, ReadsIs DEF Others, Shared
  <2>3. Void' = Void /\ Stored(f)' = Stored(f)
    BY <2>1 DEF Void, Stored
  <2>4. UNCHANGED <<cache, store>>
    BY <1>22 DEF BatchReads
  <2>5. /\ batches[c].at = "read" /\ batches'[c].evs = batches[c].evs /\ batches'[c].error = batches[c].error
    BY <1>22, ReadsIs
  <2> QED
    BY <2>1, <2>2, <2>3, <2>4, <2>5 DEF PointsInv, Upserts
<1>23. ASSUME NEW c \in Batches, BatchUpserts(c)
       PROVE  PointsInv(f)'
  <2>1. UNCHANGED <<content, work, scan, collection, clearing>> /\ spoiled \subseteq spoiled'
    BY <1>23 DEF BatchUpserts, others
  <2>2. ASSUME NEW b \in Batches \ {c} PROVE batches'[b] = batches[b]
    BY <1>23, UpsertsIs DEF Others, Shared
  <2>3. Void' = Void /\ Stored(f)' = Stored(f)
    BY <2>1 DEF Void, Stored
  <2>4. batches'[c].at = "none" /\ batches[c].at = "upsert"
    BY <1>23, UpsertsIs DEF Shared
  <2>5. PointsInv(f) /\ HolderInv(f)
    BY <2>1
  <2>6. \/ store'[f] = store[f] /\ cache'[f] = cache[f]
        \/ /\ batches[c].read[f] # 0 /\ ~batches[c].error /\ collection
           /\ store'[f] = store[f] \union ({batches[c].read[f]} \cap {1, 2})
           /\ cache'[f] = batches[c].read[f]
    BY <1>23 DEF BatchUpserts, Shared, FileTypes
  <2>7. batches[c].read[f] # 0 => batches[c].read[f] \in {1, 2, 3} /\ Upserts(c, f)
    BY DEF Shared, QueueTypes, Batch, BatchInv
  <2>8. CASE store'[f] = store[f] /\ cache'[f] = cache[f]
    BY <2>1, <2>2, <2>3, <2>4, <2>5, <2>8 DEF PointsInv, Upserts
  <2>9. CASE /\ batches[c].read[f] # 0 /\ ~batches[c].error /\ collection
             /\ store'[f] = store[f] \union ({batches[c].read[f]} \cap {1, 2})
             /\ cache'[f] = batches[c].read[f]
    <3>1. store[f] = {} /\ batches[c].evs[f] # "none"
      BY <2>4, <2>5, <2>7, <2>9 DEF PointsInv, Upserts
    <3>2. /\ scan.at = "none" /\ work[f].at = "none"
          /\ \A b \in Batches \ {c} : ~Upserts(b, f)
      BY <2>5, <3>1 DEF HolderInv, InBatch, Pending, Upserts
    <3>3. ~Void
      BY <2>9, <3>2 DEF Void
    <3>4. cache'[f] # NoFile /\ (content[f] = cache'[f] => store'[f] = Stored(f))
      <4>1. batches[c].read[f] \in {1, 2} \/ batches[c].read[f] = 3
        BY <2>7, <2>9
      <4>2. NoFile \notin {1, 2, 3}
        BY RunAssumption DEF Versions
      <4>3. CASE batches[c].read[f] \in {1, 2}
        <5>1. store'[f] = {batches[c].read[f]} /\ cache'[f] = batches[c].read[f]
          BY <2>9, <3>1, <4>3
        <5>2. batches[c].read[f] \notin {NoFile, Blank}
          BY <4>2, <4>3 DEF Blank
        <5> QED
          BY <5>1, <5>2 DEF Stored
      <4>4. CASE batches[c].read[f] = 3
        <5>1. store'[f] = {} /\ cache'[f] = 3
          BY <2>9, <3>1, <4>4
        <5> QED
          BY <4>2, <5>1 DEF Stored, Blank
      <4> QED
        BY <4>1, <4>3, <4>4
    <3>5. ASSUME NEW b \in Batches, batches'[b].at \in {"read", "upsert"}, Upserts(b, f)'
          PROVE  FALSE
      BY <2>2, <2>4, <3>2, <3>5 DEF Upserts
    <3> QED
      BY <2>1, <2>3, <3>2, <3>3, <3>4, <3>5 DEF PointsInv
  <2> QED
    BY <2>6, <2>8, <2>9
<1> QED
  BY <1>1, <1>2, <1>3, <1>4, <1>5, <1>6, <1>7, <1>8, <1>9, <1>10, <1>11, <1>12, <1>13, <1>14,
     <1>15, <1>16, <1>17, <1>18, <1>19, <1>20, <1>21, <1>22, <1>23, OldRests
     DEF IndexNext, Indexer, IndexUser, Runs, RunStep, RunInv

\* A file that was edited unseen is tracked again once a scan has read it.
LEMMA TrackStep ==
    ASSUME Shared, RunTypes, RunInv, BatchInv, ProcessedInv, NEW f \in Files,
           f \in spoiled \/ (EventInv(f) /\ HolderInv(f) /\ PointsInv(f)),
           f \in spoiled \union unseen \/ TrackInv(f),
           f \notin spoiled' \union unseen', [IndexNext]_indexVars, ~overlapped'
    PROVE  TrackInv(f)'
<1>1. CASE UNCHANGED indexVars
  BY <1>1 DEF indexVars, runVars, oldRun, others, TrackInv, Known, Comes, Current, Pending,
     Upserts
<1>2. CASE StartIndexing
  <2>1. ~watching' /\ scan'.at \in {"none", "init"}
    <3>1. [NoScan EXCEPT !.at = "init"].at = "init"
      BY DEF NoScan
    <3>2. ~watching' /\ (BeginRun \/ scan' = scan) /\ scan.at = "none"
      BY <1>2, StartIs DEF RunOver
    <3> QED
      BY <3>1, <3>2 DEF BeginRun
  <2> QED
    BY <2>1 DEF TrackInv
<1>3. CASE VectorStoreReady /\ UNCHANGED <<oldRun, others>>
  <2>1. scan.at = "init" /\ ~watching' /\ scan.processed = {} /\ content' = content
    BY <1>3 DEF VectorStoreReady, RunInv, RunOver, ProcessedInv
  <2>2. scan'.at \in {"none", "clean", "voidCache"} \/ (scan'.at = "files" /\ scan'.processed = scan.processed)
    BY <1>3 DEF VectorStoreReady, ScanBegins, NoScan, RunTypes, Scans
  <2>3. CASE scan'.at = "files"
    <3>1. work' = [h \in Files |-> IF content[h] = NoFile THEN NoWork ELSE [NoWork EXCEPT !.at = "todo"]]
      BY <1>3, <2>1, <2>3 DEF VectorStoreReady, ScanBegins, NoScan, RunTypes, Scans
    <3>2. work'[f].at # "todo" => content[f] = NoFile /\ work'[f].at = "none"
      BY <3>1 DEF NoWork
    <3> QED
      BY <2>1, <2>2, <2>3, <3>2 DEF TrackInv
  <2> QED
    BY <2>1, <2>2, <2>3 DEF TrackInv
<1>4. CASE VoidCache /\ UNCHANGED <<oldRun, others>>
  <2>1. scan.at = "voidCache" /\ ~watching' /\ scan.processed = {} /\ content' = content
    BY <1>4 DEF VoidCache, RunInv, RunOver, ProcessedInv
  <2>2. scan'.at \in {"none", "clean", "voidCache"} \/ (scan'.at = "files" /\ scan'.processed = scan.processed)
    BY <1>4 DEF VoidCache, ScanBegins, NoScan, RunTypes, Scans
  <2>3. CASE scan'.at = "files"
    <3>1. work' = [h \in Files |-> IF content[h] = NoFile THEN NoWork ELSE [NoWork EXCEPT !.at = "todo"]]
      BY <1>4, <2>1, <2>3 DEF VoidCache, ScanBegins, NoScan, RunTypes, Scans
    <3>2. work'[f].at # "todo" => content[f] = NoFile /\ work'[f].at = "none"
      BY <3>1 DEF NoWork
    <3> QED
      BY <2>1, <2>2, <2>3, <3>2 DEF TrackInv
  <2> QED
    BY <2>1, <2>2, <2>3 DEF TrackInv
<1>5. CASE FilesDone /\ UNCHANGED <<oldRun, others>>
  <2>1. scan.at = "files" /\ ~watching' /\ UNCHANGED <<content, cache, store, failed, work, spoiled, unseen>>
    BY <1>5 DEF FilesDone, RunInv, RunOver
  <2>2. \/ scan'.at = "none"
        \/ /\ scan'.at = "gone" /\ scan'.processed = scan.processed
           /\ ~scanCancelled /\ work[f].at = "none"
    BY <1>5 DEF FilesDone, NoScan, NothingInScan, RunTypes, Scans
  <2> QED
    BY <2>1, <2>2 DEF TrackInv, Known
<1>6. CASE ForgetGoneFiles /\ UNCHANGED <<oldRun, others>>
  <2>1. scan.at = "gone" /\ ~watching' /\ UNCHANGED <<content, spoiled, unseen>>
    BY <1>6 DEF ForgetGoneFiles, RunInv, RunOver
  <2>2. scan'.at \in {"none", "clean"} \/ (scan'.at = "watch" /\ ~scanCancelled)
    BY <1>6 DEF ForgetGoneFiles, NoScan, RunTypes, Scans
  <2>3. failed \subseteq failed'
    BY <1>6 DEF ForgetGoneFiles
  <2>4. IF f \in Gone THEN cache'[f] = NoFile \/ f \in failed' ELSE cache'[f] = cache[f] /\ store'[f] = store[f]
    BY <1>6 DEF ForgetGoneFiles
  <2>5. CASE scan'.at = "watch" /\ ~scanCancelled
    <3>1. TrackInv(f)
      BY <2>1
    <3>2. CASE content[f] = NoFile
      BY <2>1, <2>4, <2>5, <3>1, <3>2 DEF TrackInv, Known, Gone
    <3>3. CASE content[f] # NoFile
      BY <2>1, <2>3, <2>4, <2>5, <3>1, <3>3 DEF TrackInv, Known, Gone
    <3> QED
      BY <3>2, <3>3
  <2> QED
    BY <2>1, <2>2, <2>5 DEF TrackInv
<1>7. CASE StartWatcher /\ UNCHANGED <<oldRun, others>>
  <2>1. scan.at = "watch" /\ scan'.at = "none"
    BY <1>7 DEF StartWatcher, NoScan
  <2>2. UNCHANGED <<content, cache, store, failed, batches, spoiled, unseen>>
    BY <1>7 DEF StartWatcher
  <2>3. ~InBatch(f) /\ Known(f)
    BY <2>1, <2>2 DEF HolderInv, TrackInv
  <2> QED
    BY <2>1, <2>2, <2>3 DEF TrackInv, Known, InBatch, Pending
<1>8. CASE CleanUp /\ UNCHANGED <<oldRun, others>>
  <2>1. ~watching' /\ scan'.at = "cleanCache"
    BY <1>8 DEF CleanUp, RunInv, RunOver, RunTypes, Scans
  <2> QED
    BY <2>1 DEF TrackInv
<1>9. CASE CleanUpCache /\ UNCHANGED <<oldRun, others>>
  <2>1. ~watching' /\ scan'.at = "none"
    BY <1>9 DEF CleanUpCache, StopWatcher, NoScan
  <2> QED
    BY <2>1 DEF TrackInv
<1>10. CASE CancelIndexing
  <2>1. /\ ~watching' /\ scanCancelled' /\ UNCHANGED <<content, cache, store, failed, scan, spoiled>>
        /\ unseen \subseteq unseen'
    BY <1>10 DEF CancelIndexing, StopWatcher
  <2> QED
    BY <2>1 DEF TrackInv, Known
<1>11. CASE ClearIndexData
  <2>1. ~watching' /\ scan'.at = "none"
    BY <1>11 DEF ClearIndexData, StopWatcher, RunInv, RunOver
  <2> QED
    BY <2>1 DEF TrackInv
<1>12. CASE ClearPoints
  <2>1. ~watching' /\ scan'.at = "none"
    BY <1>12 DEF ClearPoints, RunInv, RunOver
  <2> QED
    BY <2>1 DEF TrackInv
<1>13. CASE ClearHashes
  <2>1. ~watching' /\ scan'.at = "none"
    BY <1>13 DEF ClearHashes, RunInv, RunOver
  <2> QED
    BY <2>1 DEF TrackInv
<1>14. CASE ClearHashesAgain
  <2>1. ~watching' /\ scan'.at = "none"
    BY <1>14 DEF ClearHashesAgain, RunInv, RunOver
  <2> QED
    BY <2>1 DEF TrackInv
<1>15. CASE Restart
  <2>1. CASE sysState = "Indexed"
    <3>1. watching /\ scan'.at = "none" /\ UNCHANGED <<content, cache, store, failed>>
      <4>1. NoScan.at = "none"
        BY DEF NoScan
      <4> QED
        BY <1>15, <2>1, <4>1, RestartIs DEF RunInv
    <3>2. f \notin unseen /\ f \notin spoiled /\ events[f] = "none" /\ ~InBatch(f)
      BY <1>15, <2>1, RestartIs
    <3>3. Known(f)
      BY <3>1, <3>2 DEF TrackInv, Comes, InBatch, Pending
    <3>4. \A b \in Batches : ~Pending(b, f)'
      BY <1>15, RestartIs DEF NoBatch, Pending
    <3> QED
      BY <3>1, <3>3, <3>4 DEF TrackInv, Known
  <2>2. CASE sysState # "Indexed"
    <3>1. ~watching' /\ scan'.at = "init"
      <4>1. [NoScan EXCEPT !.at = "init"].at = "init"
        BY DEF NoScan
      <4> QED
        BY <1>15, <2>2, <4>1, RestartIs
    <3> QED
      BY <3>1 DEF TrackInv
  <2> QED
    BY <2>1, <2>2
<1>16. ASSUME NEW g \in Files, ScanFile(g), UNCHANGED <<oldRun, others>>
       PROVE  TrackInv(f)'
  <2>1. /\ scan.at = "files" /\ scan'.at = "files"
        /\ UNCHANGED <<content, store, watching, scanCancelled>> /\ spoiled \subseteq spoiled'
    BY <1>16, ScanFileIs
  <2>2. ~watching'
    BY <2>1 DEF RunInv, RunOver
  <2>3. PICK r \in Work :
          /\ Becomes(g, r)
          /\ \/ /\ scanCancelled /\ r.at = "none"
                /\ UNCHANGED <<scan, failed, unseen, cache>>
             \/ /\ ~scanCancelled /\ content[g] = NoFile /\ r.at = "none"
                /\ unseen' = unseen \ {g} /\ UNCHANGED <<scan, failed, cache>>
             \/ /\ ~scanCancelled /\ r.at = "none" /\ failed' = failed \union {g}
                /\ scan'.processed = scan.processed /\ UNCHANGED <<cache, unseen>>
             \/ /\ ~scanCancelled /\ content[g] # NoFile
                /\ scan'.processed = scan.processed \union {g} /\ unseen' = unseen \ {g}
                /\ \/ r.at = "none" /\ cache[g] = content[g] /\ failed' = failed \ {g} /\ cache' = cache
                   \/ /\ r.at = "none" /\ content[g] = Blank /\ failed' = failed \ {g}
                      /\ cache' = [cache EXCEPT ![g] = Blank]
                   \/ r.at = "parsed" /\ r.v = content[g] /\ UNCHANGED <<failed, cache>>
    BY <1>16, ScanFileIs
  <2>4. CASE f # g
    <3>1. /\ work'[f] = work[f] /\ (f \in scan'.processed <=> f \in scan.processed) /\ cache'[f] = cache[f]
          /\ (f \in failed' <=> f \in failed) /\ (f \in unseen' <=> f \in unseen)
      BY <2>3, <2>4 DEF Becomes, RunTypes, Shared, FileTypes
    <3> QED
      BY <2>1, <2>2, <3>1 DEF TrackInv, Known
  <2>5. CASE f = g
    <3>1. work'[f] = r
      BY <2>3, <2>5 DEF Becomes, RunTypes
    <3>2. f \notin scan.processed
      BY <1>16, <2>5 DEF ScanFile, ProcessedInv
    <3>3. content[g] = Blank /\ cache' = [cache EXCEPT ![g] = Blank] => cache'[f] = content[f]
      BY <2>5 DEF Shared, FileTypes
    <3> QED
      BY <2>1, <2>2, <2>3, <2>5, <3>1, <3>2, <3>3 DEF TrackInv, Known
  <2> QED
    BY <2>4, <2>5
<1>17. ASSUME NEW g \in Files, DeleteOldPoints(g), UNCHANGED <<oldRun, others>>
       PROVE  TrackInv(f)'
  <2>1. UNCHANGED <<content, watching, scanCancelled, unseen>> /\ spoiled \subseteq spoiled'
    BY <1>17, DeleteOldPointsIs DEF DeleteOldPoints
  <2>2. work[g].at \in {"parsed", "deleted"} /\ scan'.at = scan.at /\ scan'.processed = scan.processed
    BY <1>17, DeleteOldPointsIs DEF DeleteOldPoints, Same
  <2>3. ~watching /\ scan.at \notin {"gone", "watch"}
    BY <2>2 DEF RunInv, RunOver, NothingInScan
  <2>4. PICK r \in Work :
          /\ Becomes(g, r)
          /\ \/ scanCancelled /\ failed' = failed
             \/ r.at \in {"deleted", "parsed"} /\ r.v = work[g].v /\ failed' = failed
             \/ r.at = "none" /\ failed' = failed \union {g}
    <3>1. work[g].at \in {"parsed", "deleted"}
      BY <1>17 DEF DeleteOldPoints
    <3> QED
      BY <1>17, <3>1, DeleteOldPointsIs, RetryIs, NoWorkMoves
  <2>5. cache' = cache /\ (f # g => store'[f] = store[f])
    BY <1>17, DeleteOldPointsIs DEF DeleteOldPoints, Shared, FileTypes
  <2>6. CASE f # g
    <3>1. work'[f] = work[f] /\ (f \in failed' <=> f \in failed)
      BY <2>4, <2>6 DEF Becomes, RunTypes
    <3> QED
      BY <2>1, <2>2, <2>3, <2>5, <2>6, <3>1 DEF TrackInv, Known
  <2>7. CASE f = g
    <3>1. work'[f] = r
      BY <2>4, <2>7 DEF Becomes, RunTypes
    <3> QED
      BY <2>1, <2>2, <2>3, <2>4, <2>7, <3>1 DEF TrackInv
  <2> QED
    BY <2>6, <2>7
<1>18. ASSUME NEW g \in Files, UpsertPoints(g), UNCHANGED <<oldRun, others>>
       PROVE  TrackInv(f)'
  <2>1. UNCHANGED <<content, watching, scanCancelled, unseen>> /\ spoiled \subseteq spoiled'
    BY <1>18, UpsertPointsIs DEF UpsertPoints
  <2>2. work[g].at \in {"parsed", "deleted"} /\ scan'.at = scan.at /\ scan'.processed = scan.processed
    BY <1>18, UpsertPointsIs DEF UpsertPoints, Same
  <2>3. ~watching /\ scan.at \notin {"gone", "watch"}
    BY <2>2 DEF RunInv, RunOver, NothingInScan
  <2>4. PICK r \in Work :
          /\ Becomes(g, r)
          /\ \/ scanCancelled /\ cache' = cache /\ failed' = failed
             \/ r.at = "parsed" /\ r.v = work[g].v /\ cache' = cache /\ failed' = failed
             \/ r.at = "none" /\ cache' = cache /\ failed' = failed \union {g}
             \/ r.at = "none" /\ cache' = [cache EXCEPT ![g] = work[g].v] /\ failed' = failed \ {g}
    <3>1. work[g].at \in {"parsed", "deleted"}
      BY <1>18 DEF UpsertPoints
    <3> QED
      BY <1>18, <3>1, UpsertPointsIs, RetryIs, NoWorkMoves
  <2>5. f # g => store'[f] = store[f]
    BY <1>18, UpsertPointsIs DEF Shared, FileTypes
  <2>6. CASE f # g
    <3>1. work'[f] = work[f] /\ (f \in failed' <=> f \in failed) /\ cache'[f] = cache[f]
      BY <2>4, <2>6 DEF Becomes, RunTypes, Shared, FileTypes
    <3> QED
      BY <2>1, <2>2, <2>3, <2>5, <2>6, <3>1 DEF TrackInv, Known
  <2>7. CASE f = g
    <3>1. work'[f] = r
      BY <2>4, <2>7 DEF Becomes, RunTypes
    <3>2. cache' = [cache EXCEPT ![g] = work[g].v] => cache'[f] = work[f].v
      BY <2>7 DEF Shared, FileTypes
    <3> QED
      BY <2>1, <2>2, <2>3, <2>4, <2>7, <3>1, <3>2 DEF TrackInv, Known
  <2> QED
    BY <2>6, <2>7
<1>19. ASSUME NEW g \in Files, Edit(g)
       PROVE  TrackInv(f)'
  <2>1. UNCHANGED <<cache, store, failed, scan, scanCancelled, work, watching, batches>>
    BY <1>19 DEF Edit
  <2>2. spoiled \subseteq spoiled' /\ unseen \subseteq unseen'
    BY <1>19 DEF Edit
  <2>3. PICK v \in Versions \union {NoFile}, kind \in {"create", "change", "delete"} :
          /\ content' = [content EXCEPT ![g] = v]
          /\ IF watching THEN events' = [events EXCEPT ![g] = kind]
                         ELSE unseen' = unseen \union {g} /\ events' = events
    BY <1>19 DEF Edit
  <2>4. CASE f # g
    <3>1. content'[f] = content[f] /\ events'[f] = events[f]
      BY <2>3, <2>4 DEF Shared, FileTypes, QueueTypes
    <3> QED
      BY <2>1, <2>2, <3>1 DEF TrackInv, Known, Comes, Current, Pending, Upserts
  <2>5. CASE f = g
    <3>1. watching /\ events'[f] # "none"
      BY <2>3, <2>5 DEF Shared, QueueTypes
    <3> QED
      BY <2>1, <3>1 DEF TrackInv, RunInv, RunOver
  <2> QED
    BY <2>4, <2>5
<1>20. ASSUME NEW c \in Batches, TriggerBatch(c)
       PROVE  TrackInv(f)'
  <2>1. UNCHANGED <<content, cache, store, failed, scan, work, watching, unseen>> /\ spoiled \subseteq spoiled'
    BY <1>20 DEF TriggerBatch
  <2>2. watching /\ scan.at = "none" /\ batches[c].at = "none"
    BY <1>20 DEF TriggerBatch, RunInv, RunOver
  <2>3. ASSUME NEW b \in Batches \ {c} PROVE batches'[b] = batches[b]
    BY <1>20, TriggerIs DEF Others, Shared
  <2>4. ~Pending(c, f)
    BY <2>2 DEF BatchInv
  <2>5. CASE events[f] = "none"
    <3>1. ~Pending(c, f)'
      BY <1>20, <2>5, TriggerIs DEF Pending, Shared
    <3> QED
      BY <2>1, <2>2, <2>3, <2>4, <2>5, <3>1 DEF TrackInv, Known, Comes, Current, Pending, Upserts
  <2>6. CASE events[f] # "none"
    <3>1. ~InBatch(f)
      BY <1>20, <2>6 DEF TriggerBatch
    <3>2. batches'[c].at = "clear" /\ batches'[c].evs[f] = events[f]
      BY <1>20, TriggerIs DEF Shared
    <3>3. \A b \in Batches \ {c} : ~Pending(b, f)'
      BY <2>3, <3>1 DEF InBatch, Pending
    <3>4. events[f] = "delete" <=> content[f] = NoFile
      BY <2>1, <2>6 DEF EventInv
    <3>5. Current(c, f)' /\ Comes(c, f)'
      BY <2>1, <2>6, <3>2, <3>4 DEF Comes, Current, Pending
    <3> QED
      BY <2>1, <2>2, <3>3, <3>5 DEF TrackInv
  <2> QED
    BY <2>5, <2>6
<1>21. ASSUME NEW c \in Batches, BatchDeletions(c)
       PROVE  TrackInv(f)'
  <2>1. UNCHANGED <<content, scan, scanCancelled, work, watching, events, unseen>> /\ spoiled \subseteq spoiled'
    BY <1>21 DEF BatchDeletions
  <2>2. ASSUME NEW b \in Batches \ {c} PROVE batches'[b] = batches[b]
    BY <1>21, DeletionsIs DEF Others, Shared
  <2>3. HolderInv(f) /\ TrackInv(f)
    BY <2>1
  <2>4. ~Pending(c, f) => cache'[f] = cache[f] /\ store'[f] = store[f] /\ (f \in failed' <=> f \in failed)
    BY <1>21 DEF BatchDeletions, Pending
  <2>6. CASE scan.at # "none"
    <3>1. ~Pending(c, f) /\ ~watching
      BY <2>3, <2>6 DEF HolderInv, InBatch, Pending, RunInv, RunOver
    <3> QED
      BY <2>1, <2>3, <2>4, <2>6, <3>1 DEF TrackInv, Known
  <2>7. CASE ~Pending(c, f) /\ scan.at = "none"
    <3>1. ~Pending(c, f)'
      BY <1>21, <2>7, DeletionsIs DEF Pending, Shared
    <3> QED
      BY <2>1, <2>2, <2>3, <2>4, <2>7, <3>1 DEF TrackInv, Known, Comes, Current, Pending, Upserts
  <2>8. CASE Pending(c, f) /\ scan.at = "none" /\ watching /\ events[f] = "none"
    <3>1. \A b \in Batches \ {c} : ~Pending(b, f)'
      BY <2>2, <2>3, <2>8 DEF HolderInv, Pending
    <3>2. Current(c, f) /\ (Known(f) \/ Comes(c, f))
      BY <2>3, <2>8 DEF TrackInv, HolderInv, Comes
    <3>3. batches[c].at = "clear" /\ batches'[c].at = "read" /\ batches'[c].evs = batches[c].evs
      BY <1>21, DeletionsIs DEF Shared
    <3>4. batches[c].evs[f] = "delete" => cache'[f] = NoFile \/ f \in failed'
      BY <1>21 DEF BatchDeletions
    <3>5. batches[c].evs[f] \in {"create", "change", "delete"}
      BY <2>8 DEF Pending, Shared, QueueTypes, Batch, Kinds
    <3>6. Current(c, f)' /\ Pending(c, f)'
      BY <2>1, <2>8, <3>2, <3>3 DEF Current, Pending
    <3>7. CASE batches[c].evs[f] = "delete"
      <4>1. Known(f)'
        BY <2>1, <3>2, <3>3, <3>4, <3>7 DEF Current, Known
      <4> QED
        BY <2>1, <2>8, <3>1, <3>6, <4>1 DEF TrackInv, RunInv, RunOver
    <3>8. CASE batches[c].evs[f] # "delete"
      <4>1. Comes(c, f)'
        BY <3>3, <3>5, <3>6, <3>8 DEF Comes, Upserts
      <4> QED
        BY <2>1, <2>8, <3>1, <3>6, <4>1 DEF TrackInv
    <3> QED
      BY <3>7, <3>8
  <2> QED
    BY <2>1, <2>6, <2>7, <2>8 DEF TrackInv
<1>22. ASSUME NEW c \in Batches, BatchReads(c)
       PROVE  TrackInv(f)'
  <2>1. UNCHANGED <<content, scan, scanCancelled, work, watching, events, unseen>> /\ spoiled \subseteq spoiled'
    BY <1>22 DEF BatchReads
  <2>2. ASSUME NEW b \in Batches \ {c} PROVE batches'[b] = batches[b]
    BY <1>22, ReadsIs DEF Others, Shared
  <2>3. HolderInv(f) /\ TrackInv(f)
    BY <2>1
  <2>4. UNCHANGED <<cache, store>> /\ failed \subseteq failed'
    BY <1>22, ReadsIs DEF BatchReads
  <2>6. CASE scan.at # "none"
    <3>1. ~Pending(c, f) /\ ~watching
      BY <2>3, <2>6 DEF HolderInv, InBatch, Pending, RunInv, RunOver
    <3> QED
      BY <2>1, <2>3, <2>4, <2>6, <3>1 DEF TrackInv, Known
  <2>7. CASE ~Pending(c, f) /\ scan.at = "none"
    <3>1. ~Pending(c, f)'
      BY <1>22, <2>7, ReadsIs DEF Pending, Shared
    <3> QED
      BY <2>1, <2>2, <2>3, <2>4, <2>7, <3>1 DEF TrackInv, Known, Comes, Current, Pending, Upserts
  <2>8. CASE Pending(c, f) /\ scan.at = "none" /\ watching /\ events[f] = "none"
    <3>1. \A b \in Batches \ {c} : ~Pending(b, f)'
      BY <2>2, <2>3, <2>8 DEF HolderInv, Pending
    <3>2. Current(c, f) /\ (Known(f) \/ Comes(c, f))
      BY <2>3, <2>8 DEF TrackInv, HolderInv, Comes
    <3>3. batches[c].at = "read" /\ batches'[c].at = "upsert" /\ batches'[c].evs = batches[c].evs
      BY <1>22, ReadsIs
    <3>4. /\ batches'[c].read[f] # 0 => batches'[c].read[f] = content[f]
          /\ Upserts(c, f) /\ batches'[c].read[f] = 0 => Known(f)'
      BY <1>22, ReadsIs
    <3>5. Current(c, f)' /\ Pending(c, f)'
      BY <2>1, <2>8, <3>3, <3>4 DEF Current, Pending
    <3>6. Known(f)' \/ Comes(c, f)'
      BY <2>1, <2>4, <3>2, <3>3, <3>4, <3>5 DEF Known, Comes
    <3> QED
      BY <2>1, <2>8, <3>1, <3>5, <3>6 DEF TrackInv
  <2> QED
    BY <2>1, <2>6, <2>7, <2>8 DEF TrackInv
<1>23. ASSUME NEW c \in Batches, BatchUpserts(c)
       PROVE  TrackInv(f)'
  <2>1. UNCHANGED <<content, scan, scanCancelled, work, watching, events, unseen>> /\ spoiled \subseteq spoiled'
    BY <1>23 DEF BatchUpserts
  <2>2. ASSUME NEW b \in Batches \ {c} PROVE batches'[b] = batches[b]
    BY <1>23, UpsertsIs DEF Others, Shared
  <2>3. HolderInv(f) /\ TrackInv(f)
    BY <2>1
  <2>5. \/ /\ batches[c].read[f] = 0 /\ cache'[f] = cache[f] /\ store'[f] = store[f]
           /\ (f \in failed' <=> f \in failed)
        \/ /\ batches[c].read[f] # 0
           /\ \/ cache'[f] = batches[c].read[f]
              \/ f \in failed'
              \/ batches[c].read[f] = Blank /\ store'[f] = {}
    BY <1>23 DEF BatchUpserts, Shared, FileTypes
  <2>4. /\ ~Pending(c, f) => cache'[f] = cache[f] /\ store'[f] = store[f]
        /\ ~Pending(c, f) => (f \in failed' <=> f \in failed)
    BY <2>5 DEF BatchInv, Pending, Upserts
  <2>6. CASE scan.at # "none"
    <3>1. ~Pending(c, f) /\ ~watching
      BY <2>3, <2>6 DEF HolderInv, InBatch, Pending, RunInv, RunOver
    <3> QED
      BY <2>1, <2>3, <2>4, <2>6, <3>1 DEF TrackInv, Known
  <2>7. CASE ~Pending(c, f) /\ scan.at = "none"
    <3>1. ~Pending(c, f)'
      BY <1>23, <2>7, UpsertsIs DEF Pending, Shared
    <3> QED
      BY <2>1, <2>2, <2>3, <2>4, <2>7, <3>1 DEF TrackInv, Known, Comes, Current, Pending, Upserts
  <2>8. CASE Pending(c, f) /\ scan.at = "none" /\ watching /\ events[f] = "none"
    <3>1. \A b \in Batches \ {c} : ~Pending(b, f)'
      BY <2>2, <2>3, <2>8 DEF HolderInv, Pending
    <3>2. Current(c, f) /\ (Known(f) \/ Comes(c, f))
      BY <2>3, <2>8 DEF TrackInv, HolderInv, Comes
    <3>3. batches[c].at = "upsert" /\ ~Pending(c, f)'
      BY <1>23, UpsertsIs DEF Shared
    <3>4. Known(f)'
      BY <2>1, <2>5, <3>2, <3>3 DEF Known, Comes, Current
    <3> QED
      BY <2>1, <2>8, <3>1, <3>3, <3>4 DEF TrackInv
  <2> QED
    BY <2>1, <2>6, <2>7, <2>8 DEF TrackInv
<1> QED
  BY <1>1, <1>2, <1>3, <1>4, <1>5, <1>6, <1>7, <1>8, <1>9, <1>10, <1>11, <1>12, <1>13, <1>14,
     <1>15, <1>16, <1>17, <1>18, <1>19, <1>20, <1>21, <1>22, <1>23, OldRests
     DEF IndexNext, Indexer, IndexUser, Runs, RunStep, RunInv

\* No step forgets that runs overlapped.
LEMMA OverlapStays ==
    ASSUME TypeParts, [IndexNext]_indexVars, ~overlapped'
    PROVE  ~overlapped
<1>1. CASE UNCHANGED indexVars
  BY <1>1 DEF indexVars, others
<1>2. CASE Runs
  BY <1>2 DEF Runs, others
<1>3. CASE ClearPoints \/ ClearHashes \/ ClearHashesAgain
  BY <1>3 DEF ClearPoints, ClearHashes, ClearHashesAgain
<1>4. ASSUME NEW b \in Batches, TriggerBatch(b) \/ BatchDeletions(b) \/ BatchReads(b) \/ BatchUpserts(b)
      PROVE  ~overlapped
  BY <1>4 DEF TriggerBatch, BatchDeletions, BatchReads, BatchUpserts, others
<1>5. CASE StartIndexing
  BY <1>5 DEF StartIndexing
<1>6. CASE CancelIndexing \/ ClearIndexData \/ Restart
  BY <1>6 DEF CancelIndexing, ClearIndexData, Restart
<1>7. ASSUME NEW f \in Files, Edit(f) PROVE ~overlapped
  BY <1>7 DEF Edit
<1> QED
  BY <1>1, <1>2, <1>3, <1>4, <1>5, <1>6, <1>7 DEF IndexNext, Indexer, IndexUser

LEMMA IndexStep ==
    ASSUME TypeParts, IndexInv, [IndexNext]_indexVars, ~overlapped'
    PROVE  IndexInv'
<1>1. Shared /\ RunTypes /\ BatchInv /\ RunInv /\ ProcessedInv
  BY DEF TypeParts, IndexInv
<1>2. ASSUME NEW f \in Files
      PROVE  /\ f \in spoiled \/ (EventInv(f) /\ HolderInv(f) /\ PointsInv(f))
             /\ f \in spoiled \union unseen \/ TrackInv(f)
  BY DEF IndexInv
<1>3. BatchInv' /\ RunInv' /\ ProcessedInv'
  BY <1>1, BatchStep, RunInvStep, ProcessedStep
<1>4. ASSUME NEW f \in Files, f \notin spoiled'
      PROVE  EventInv(f)' /\ HolderInv(f)' /\ PointsInv(f)'
  <2>1. EventInv(f)'
    BY <1>1, <1>2, <1>4, EventsStep
  <2>2. HolderInv(f)'
    BY <1>1, <1>2, <1>4, HolderStep
  <2>3. PointsInv(f)'
    <3>1. f \in spoiled \/ (HolderInv(f) /\ PointsInv(f))
      BY <1>2, <1>4
    <3> QED
      BY <1>1, <1>4, <3>1, PointsStep
  <2> QED
    BY <2>1, <2>2, <2>3
<1>5. ASSUME NEW f \in Files, f \notin spoiled' \union unseen'
      PROVE  TrackInv(f)'
  <2>1. f \in spoiled \/ (EventInv(f) /\ HolderInv(f) /\ PointsInv(f))
    BY <1>2, <1>5
  <2>2. f \in spoiled \union unseen \/ TrackInv(f)
    BY <1>2, <1>5
  <2> QED
    BY <1>1, <1>5, <2>1, <2>2, TrackStep
<1> QED
  BY <1>3, <1>4, <1>5 DEF IndexInv

LEMMA IndexStart == IndexInit => IndexInv
<1> SUFFICES ASSUME IndexInit PROVE IndexInv
  OBVIOUS
<1>1. /\ NoScan.at = "none" /\ NoScan.processed = {} /\ NoWork.at = "none" /\ NoBatch.at = "none"
      /\ [NoScan EXCEPT !.at = "init"].at = "init" /\ [NoScan EXCEPT !.at = "init"].processed = {}
      /\ ~NoBatch.reports /\ \A f \in Files : NoBatch.evs[f] = "none" /\ NoBatch.read[f] = 0
  BY DEF NoScan, NoWork, NoBatch
<1>2. /\ \A b \in Batches : batches[b] = NoBatch
      /\ \A f \in Files : /\ events[f] = "none" /\ work[f].at = "none" /\ oldWork[f].at = "none"
                          /\ store[f] = {} /\ cache[f] = NoFile
      /\ oldScan.at = "none" /\ clearing = "none" /\ ~watching /\ scan.processed = {}
      /\ \/ scan.at = "init" /\ sysState = "Indexing"
         \/ scan.at = "none" /\ sysState = "Error"
      /\ NoEvents
  BY <1>1 DEF IndexInit, NoHashes, NoPoints, NoEvents
<1>3. BatchInv
  BY <1>1, <1>2 DEF BatchInv, Pending
<1>4. RunInv
  BY <1>2 DEF RunInv, RunOver, OldRunOver, NothingInScan, Old!NothingInScan
<1>5. ProcessedInv
  BY <1>2 DEF ProcessedInv
<1>6. ASSUME NEW f \in Files PROVE EventInv(f) /\ HolderInv(f) /\ PointsInv(f) /\ TrackInv(f)
  <2>1. \A b \in Batches : ~Pending(b, f) /\ batches[b].at = "none"
    BY <1>1, <1>2 DEF Pending
  <2>2. content[f] # NoFile => cache[f] # content[f]
    BY <1>2
  <2> QED
    BY <1>2, <2>1, <2>2 DEF EventInv, HolderInv, PointsInv, TrackInv, InBatch, Pending
<1> QED
  BY <1>3, <1>4, <1>5, <1>6 DEF IndexInv

LEMMA IndexInvariant == IndexSpec => [](TypeParts /\ (~overlapped => IndexInv))
<1> DEFINE Inv == TypeParts /\ (~overlapped => IndexInv)
<1>1. IndexInit => Inv
  BY TypesInitially, IndexStart
<1>2. Inv /\ [IndexNext]_indexVars => Inv'
  <2> SUFFICES ASSUME Inv, [IndexNext]_indexVars PROVE Inv'
    OBVIOUS
  <2>1. TypeParts'
    BY TypesStep
  <2>2. ASSUME ~overlapped' PROVE IndexInv'
    <3>1. ~overlapped
      BY <2>2, OverlapStays
    <3> QED
      BY <2>2, <3>1, IndexStep
  <2> QED
    BY <2>1, <2>2
<1> QED
  BY <1>1, <1>2, PTL DEF IndexSpec

\* At rest and Indexed, a file no failure was reported of has exactly the points
\* of what it now holds, as long as no two runs overlapped.
THEOREM IndexFollowsFiles == IndexSpec => []IndexedIsExact
<1>1. ASSUME ~overlapped => IndexInv PROVE IndexedIsExact
  <2> SUFFICES ASSUME AtRest, sysState = "Indexed", ~overlapped,
                      NEW f \in Files, f \notin failed, f \notin unseen, f \notin spoiled
               PROVE  store[f] = Stored(f)
    BY DEF IndexedIsExact
  <2>1. PointsInv(f) /\ TrackInv(f) /\ RunInv /\ BatchInv
    BY <1>1 DEF IndexInv
  <2>2. watching /\ events[f] = "none" /\ scan.at = "none" /\ clearing = "none"
    BY <2>1 DEF AtRest, RunInv, RunOver, NoEvents
  <2>3. \A b \in Batches : ~Pending(b, f)
    BY <2>1 DEF AtRest, BatchInv
  <2>4. Known(f) /\ ~Void
    BY <2>1, <2>2, <2>3 DEF TrackInv, Comes, Void
  <2>5. CASE content[f] = NoFile \/ content[f] = Blank
    BY <2>1, <2>4, <2>5 DEF PointsInv, Known, Stored
  <2>6. CASE content[f] # NoFile /\ content[f] # Blank
    BY <2>1, <2>4, <2>6 DEF PointsInv, Known
  <2> QED
    BY <2>5, <2>6
<1> QED
  BY <1>1, IndexInvariant, PTL

\* A hash that matches its file stands for points that are there, as long as no
\* two runs overlapped.
THEOREM HashesHavePoints == IndexSpec => []HashMeansPoints
<1>1. ASSUME ~overlapped => IndexInv PROVE HashMeansPoints
  <2> SUFFICES ASSUME AtRest, ~overlapped, NEW f \in Files, f \notin spoiled, cache[f] = content[f]
               PROVE  Stored(f) \subseteq store[f]
    BY DEF HashMeansPoints
  <2>1. PointsInv(f) /\ ~Void
    BY <1>1 DEF IndexInv, AtRest, RunOver, Void
  <2> QED
    BY <2>1 DEF PointsInv, Stored
<1> QED
  BY <1>1, IndexInvariant, PTL
----------------------------------------------------------------------------
(* Checkpoints                                                             *)

\* The types, with the sequence that CheckpointsTypeOK only measures.
SavesTypes == CheckpointsTypeOK /\ log \in Seq(0..1)

\* While checkpoints are enabled the flag covers the call that builds the
\* repository, so no second call begins; once they are off none begins at all.
Building(c) == call[c].at \in {"git", "init"}
FlagInv == /\ \A c \in Calls : enabled /\ Building(c) => initializing
           /\ \A c, d \in Calls : Building(c) /\ Building(d) => c = d

\* What is staged and what the workspace holds were both seen by every save
\* that has done its git add.
SeenInv == \A c \in Calls : Is(c, "commit") => index \in seen[c] /\ files \in seen[c]

SavesInv == SavesTypes /\ FlagInv /\ SeenInv

LEMMA SavesStart == SavesInit => SavesInv
<1> SUFFICES ASSUME SavesInit PROVE SavesInv
  OBVIOUS
<1>1. log \in Seq(0..1) /\ Len(log) <= MaxCommits
  <2>1. CASE repo
    BY SavesAssumption, <2>1, <<0>> \in Seq(0..1) DEF SavesInit
  <2>2. CASE ~repo
    BY SavesAssumption, <2>2, <<>> \in Seq(0..1) DEF SavesInit
  <2> QED BY <2>1, <2>2
<1>a. call \in [Calls -> [kind : CallKinds, at : {"new", "wait", "git", "warn", "init", "assign", "stage",
                                           "commit", "clean", "reset", "done", "skipped", "off"}]]
  BY DEF SavesInit, NoCall, CallKinds
<1>b. seen \in [Calls -> SUBSET (0..1)]
  BY DEF SavesInit
<1>c. files \in 0..1 /\ index \in 0..1
  BY SMT DEF SavesInit
<1>d. enabled \in BOOLEAN /\ initializing \in BOOLEAN /\ repo \in BOOLEAN
      /\ service \in {"none", "made", "ready"}
  BY Zenon DEF SavesInit
<1>2. SavesTypes
  BY <1>1, <1>a, <1>b, <1>c, <1>d DEF SavesTypes, CheckpointsTypeOK
<1>3. FlagInv /\ SeenInv
  BY DEF SavesInit, FlagInv, Building, SeenInv, Is, NoCall
<1> QED BY <1>2, <1>3 DEF SavesInv

Spots == {"new", "wait", "git", "warn", "init", "assign", "stage", "commit", "clean",
           "reset", "done", "skipped", "off"}

\* How the two ways to move a call change it: the kind and the place of that
\* call, and nothing of the others.
LEMMA CallMoves ==
  ASSUME SavesTypes, NEW c \in Calls, NEW at \in Spots,
         Goto(c, at) \/ Leave(c, at) \/ \E k \in CallKinds : call' = [call EXCEPT ![c] = [kind |-> k, at |-> at]]
  PROVE  /\ call' \in [Calls -> [kind : CallKinds, at : Spots]]
         /\ call'[c].at = at
         /\ \A d \in Calls \ {c} : call'[d] = call[d]
  BY DEF SavesTypes, CheckpointsTypeOK, Goto, Leave, NoCall, CallKinds, Spots

LEMMA UsePlace == ASSUME NEW kind \in CallKinds PROVE Use(kind) \in {"done", "stage", "clean"}
  BY DEF Use, CallKinds

\* Every step keeps the types.
LEMMA TypeStep == ASSUME SavesTypes, [SavesNext]_checkpointVars
                  PROVE  SavesTypes'
<1> USE DEF SavesTypes, CheckpointsTypeOK
<1>0. CASE UNCHANGED checkpointVars
  BY <1>0 DEF checkpointVars
<1>1. CASE EditWorkspace
  BY <1>1 DEF EditWorkspace, See
<1>2. ASSUME NEW c \in Calls, NEW kind \in CallKinds, GetCheckpointService(c, kind) PROVE SavesTypes'
  <2> DEFINE at == IF ~enabled THEN "off" ELSE IF service # "none" THEN Use(kind)
                   ELSE IF initializing THEN "wait" ELSE "git"
  <2>1. at \in Spots
    BY UsePlace DEF Spots
  <2>2. call' = [call EXCEPT ![c] = [kind |-> kind, at |-> at]]
    BY <1>2 DEF GetCheckpointService
  <2> HIDE DEF at
  <2>3. call' \in [Calls -> [kind : CallKinds, at : Spots]]
    BY <2>1, <2>2, CallMoves
  <2> QED BY <1>2, <2>3 DEF GetCheckpointService, Spots
<1>3. ASSUME NEW c \in Calls, Step(c) PROVE SavesTypes'
  <2>0. call[c].kind \in CallKinds
    OBVIOUS
  <2>1. CASE WaitEnds(c) \/ Assign(c)
    BY <2>0, <2>1, UsePlace, CallMoves DEF WaitEnds, Assign, Spots
  <2>2. CASE WaitTimesOut(c) \/ CheckGit(c)
    BY <2>2, CallMoves DEF WaitTimesOut, CheckGit, Spots
  <2>3. CASE InitShadowGit(c)
    <3>1. call' \in [Calls -> [kind : CallKinds, at : Spots]]
      BY <2>0, <2>3, UsePlace, CallMoves DEF InitShadowGit, Spots
    <3>2. log' \in Seq(0..1) /\ Len(log') <= MaxCommits /\ index' \in 0..1
      <4>1. <<files>> \in Seq(0..1) /\ Len(<<files>>) = 1
        OBVIOUS
      <4>2. log' \in {log, <<files>>} /\ index' \in {index, files}
        BY <2>3 DEF InitShadowGit
      <4>3. log \in Seq(0..1) /\ Len(log) <= MaxCommits /\ 1 <= MaxCommits
        BY SavesAssumption
      <4>4. index' \in 0..1
        BY <4>2
      <4>5. CASE log' = log
        BY <4>3, <4>4, <4>5
      <4>6. CASE log' = <<files>>
        BY <4>1, <4>3, <4>4, <4>6
      <4> QED BY <4>2, <4>5, <4>6
    <3> QED BY <2>3, <3>1, <3>2 DEF InitShadowGit, Spots
  <2>4. CASE GitFails(c)
    BY <2>4, CallMoves DEF GitFails, Spots
  <2>5. CASE Stage(c)
    BY SavesAssumption, <2>5, CallMoves DEF Stage, Spots
  <2>6. CASE Commit(c)
    <3>1. call' \in [Calls -> [kind : CallKinds, at : Spots]]
      BY <2>6, CallMoves DEF Commit, Spots
    <3>2. log' \in Seq(0..1) /\ Len(log') <= MaxCommits
      BY SavesAssumption, <2>6 DEF Commit
    <3> QED BY <2>6, <3>1, <3>2 DEF Commit, Spots
  <2>7. CASE Clean(c)
    BY <2>7, CallMoves DEF Clean, Spots
  <2>8. CASE Reset(c)
    <3>1. call' \in [Calls -> [kind : CallKinds, at : Spots]]
      BY <2>8, CallMoves DEF Reset, Spots
    <3>2. PICK k \in DOMAIN log : /\ log' = SubSeq(log, 1, k)
                                  /\ files' = log[k] /\ index' = log[k]
                                  /\ seen' = See(log[k])
      BY <2>8 DEF Reset
    <3>3. k \in 1..Len(log) /\ log[k] \in 0..1
      OBVIOUS
    <3>4. log' \in Seq(0..1) /\ Len(log') <= MaxCommits
      BY SavesAssumption, <3>2, <3>3
    <3>5. seen' \in [Calls -> SUBSET (0..1)]
      BY <3>2, <3>3 DEF See
    <3> QED BY <2>8, <3>1, <3>2, <3>3, <3>4, <3>5 DEF Reset, Spots
  <2> QED BY <1>3, <2>1, <2>2, <2>3, <2>4, <2>5, <2>6, <2>7, <2>8 DEF Step
<1>4. ASSUME NEW c \in Calls, WarningDismissed(c) PROVE SavesTypes'
  <2>1. call[c].kind \in CallKinds
    OBVIOUS
  <2> QED
    BY <1>4, <2>1, UsePlace, CallMoves DEF WarningDismissed, Spots
<1> QED BY <1>0, <1>1, <1>2, <1>3, <1>4 DEF SavesNext, Checkpointing

\* The flag, step by step: GetCheckpointService is the only way into "git", and it wants the
\* flag down with checkpoints enabled.
LEMMA FlagStep == ASSUME SavesTypes, FlagInv, [SavesNext]_checkpointVars
                  PROVE  FlagInv'
<1> USE DEF FlagInv, Building, SavesTypes, CheckpointsTypeOK
<1>0. CASE UNCHANGED checkpointVars \/ EditWorkspace
  BY <1>0 DEF checkpointVars, EditWorkspace
<1>2. ASSUME NEW c \in Calls, NEW kind \in CallKinds, GetCheckpointService(c, kind) PROVE FlagInv'
  BY <1>2, UsePlace DEF GetCheckpointService, Is
<1>3. ASSUME NEW c \in Calls, Step(c) PROVE FlagInv'
  <2>0. call[c].kind \in CallKinds
    OBVIOUS
  <2>1. CASE WaitEnds(c) \/ Assign(c)
    BY <2>0, <2>1, UsePlace DEF WaitEnds, Assign, Goto
  <2>2. CASE WaitTimesOut(c) \/ CheckGit(c)
    BY <2>2 DEF WaitTimesOut, CheckGit, Goto, Leave, NoCall, Is
  <2>3. CASE InitShadowGit(c)
    BY <2>0, <2>3, UsePlace DEF InitShadowGit, Goto, Is
  <2>4. CASE GitFails(c) \/ Stage(c) \/ Commit(c) \/ Clean(c) \/ Reset(c)
    BY <2>4 DEF GitFails, Stage, Commit, Clean, Reset, Goto, Leave, NoCall
  <2> QED BY <1>3, <2>1, <2>2, <2>3, <2>4 DEF Step
<1>4. ASSUME NEW c \in Calls, WarningDismissed(c) PROVE FlagInv'
  <2>1. call[c].kind \in CallKinds
    OBVIOUS
  <2> QED
    BY <1>4, <2>1, UsePlace DEF WarningDismissed, Goto, Is
<1> QED BY <1>0, <1>2, <1>3, <1>4 DEF SavesNext, Checkpointing

\* A save that waits to commit has seen what any other step stages or writes.
LEMMA SeenStep == ASSUME SavesTypes, SeenInv, [SavesNext]_checkpointVars
                  PROVE  SeenInv'
<1> USE DEF SeenInv, SavesTypes, CheckpointsTypeOK, Is
<1>0. CASE UNCHANGED checkpointVars
  BY <1>0 DEF checkpointVars
<1>1. CASE EditWorkspace
  BY <1>1 DEF EditWorkspace, See
<1>2. ASSUME NEW c \in Calls, NEW kind \in CallKinds, GetCheckpointService(c, kind) PROVE SeenInv'
  BY <1>2, UsePlace DEF GetCheckpointService
<1>3. ASSUME NEW c \in Calls, Step(c) PROVE SeenInv'
  <2>0. call[c].kind \in CallKinds
    OBVIOUS
  <2>1. CASE WaitEnds(c) \/ Assign(c) \/ InitShadowGit(c)
    BY <2>0, <2>1, UsePlace DEF WaitEnds, Assign, InitShadowGit, Goto
  <2>2. CASE WaitTimesOut(c) \/ CheckGit(c) \/ GitFails(c) \/ Commit(c)
    BY <2>2 DEF WaitTimesOut, CheckGit, GitFails, Commit, Goto, Leave, NoCall
  <2>3. CASE Stage(c) \/ Clean(c)
    BY <2>3 DEF Stage, Clean, Goto
  <2>4. CASE Reset(c)
    BY <2>4 DEF Reset, Leave, NoCall, See
  <2> QED BY <1>3, <2>1, <2>2, <2>3, <2>4 DEF Step
<1>4. ASSUME NEW c \in Calls, WarningDismissed(c) PROVE SeenInv'
  <2>1. call[c].kind \in CallKinds
    OBVIOUS
  <2> QED
    BY <1>4, <2>1, UsePlace DEF WarningDismissed, Goto
<1> QED BY <1>0, <1>1, <1>2, <1>3, <1>4 DEF SavesNext, Checkpointing

\* The invariant of every behaviour.
LEMMA SavesInvariant == SavesSpec => []SavesInv
<1>1. SavesInv /\ [SavesNext]_checkpointVars => SavesInv'
  BY TypeStep, FlagStep, SeenStep DEF SavesInv
<1> QED BY SavesStart, <1>1, PTL DEF SavesSpec

----------------------------------------------------------------------------

\* Every value stays within its type, whatever git commands fail.
THEOREM CheckpointTypes == SavesSpec => []CheckpointsTypeOK
<1>1. SavesInv => CheckpointsTypeOK
  BY DEF SavesInv, SavesTypes
<1> QED BY SavesInvariant, <1>1, PTL

\* However many calls ask for the service at the same time, time out and fail,
\* at most one of them is building the shadow repository.
THEOREM ShadowRepositoryOnce == SavesSpec => []OneShadowInit
<1>1. SavesInv => OneShadowInit
  BY DEF SavesInv, FlagInv, Building, OneShadowInit, Is
<1> QED BY SavesInvariant, <1>1, PTL

\* Every commit a save makes holds a version the workspace had since its git
\* add, whatever the git commands of other calls do in between.
THEOREM CommitsAreSnapshots == SavesSpec => CommitIsSnapshot
<1> DEFINE P(c) == Is(c, "commit") /\ Len(log') > Len(log) /\ ~Is(c, "commit")'
                      => Last(log') \in seen[c]
<1>1. SavesInv /\ [SavesNext]_checkpointVars => [\A c \in Calls : P(c)]_checkpointVars
  <2> SUFFICES ASSUME SavesInv, SavesNext, NEW c \in Calls, Is(c, "commit"),
                      Len(log') > Len(log), ~Is(c, "commit")'
               PROVE  Last(log') \in seen[c]
    BY DEF checkpointVars
  <2> USE DEF SavesInv, SavesTypes, CheckpointsTypeOK, Is
  <2>1. Commit(c) \/ GitFails(c)
    <3>1. ~EditWorkspace
      BY DEF EditWorkspace
    <3>2. ASSUME NEW d \in Calls, NEW kind \in CallKinds PROVE ~GetCheckpointService(d, kind)
      BY <3>2 DEF GetCheckpointService
    <3>a. ASSUME NEW d \in Calls PROVE ~WarningDismissed(d)
      BY <3>a DEF WarningDismissed
    <3>3. PICK d \in Calls : Step(d)
      BY <3>1, <3>2, <3>a DEF SavesNext, Checkpointing
    <3>4. d = c
      BY <3>3 DEF Step, WaitEnds, WaitTimesOut, CheckGit, InitShadowGit, Assign,
                  GitFails, Stage, Commit, Clean, Reset, Goto, Leave
    <3> QED BY <3>3, <3>4 DEF Step, WaitEnds, WaitTimesOut, CheckGit,
                              InitShadowGit, Assign, Stage, Clean, Reset
  <2>2. log' = Append(log, index)
    BY <2>1 DEF Commit, GitFails
  <2>3. Last(log') = index
    BY <2>2 DEF Last
  <2> QED BY <2>3 DEF SeenInv
<1> QED BY SavesInvariant, <1>1, PTL DEF SavesSpec, CommitIsSnapshot

----------------------------------------------------------------------------
(* The services in one host                                                *)

\* Whichever service a behaviour of MCServices is of, it is one of every service
\* on its own: the chosen one takes its steps, and the others stutter.
THEOREM ServicesAreApart == Spec => HubSpec /\ IndexSpec /\ SavesSpec
<1>1. Init => HubInit /\ IndexInit /\ SavesInit
  BY DEF Init
<1>2. [Next]_allVars => [HubNext]_hubVars /\ [IndexNext]_indexVars /\ [SavesNext]_checkpointVars
  BY DEF Next, HubMoves, IndexMoves, SavesMoves, allVars
<1> QED BY <1>1, <1>2, PTL DEF Spec, HubSpec, IndexSpec, SavesSpec

\* The connections of the hub, the hashes and points of the index and the
\* callers of the checkpoint service have their types, whichever of them moves.
THEOREM ServicesTypeCorrect == Spec => []TypesOK
BY ServicesAreApart, HubTypes, IndexTypes, CheckpointTypes, PTL DEF TypesOK
=============================================================================
