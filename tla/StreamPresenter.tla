-------------------------- MODULE StreamPresenter --------------------------
(***************************************************************************)
(* One agent turn seen from inside: makeClineRequestsUnlocked (Task.ts)    *)
(* reads a provider's stream into content blocks, presentAssistantMessage  *)
(* (presentAssistantMessage.ts) shows the text and runs the tool calls     *)
(* among them, and the next request carries their results.                 *)
(*                                                                         *)
(* The loop never awaits the presenter: every chunk calls it and moves on, *)
(* so calls of it overlap with the stream, with each other and, when       *)
(* something goes wrong, with the next request.  Calls are the calls under *)
(* way; an action is the code between two awaits of the loop or of one     *)
(* call.  Blocks are numbered in the order they are streamed.              *)
(***************************************************************************)
EXTENDS Naturals, Sequences, FiniteSets

CONSTANTS
    Calls,         \* calls of presentAssistantMessage that can be under way
    MaxBlocks,     \* how many blocks the provider streams in all
    MaxRequests,   \* how many times the provider is asked in all
    Events         \* what may happen beyond the plain course of things

\* "reject": the user rejects a tool; "refuse": the mode does not allow a tool
\* whose call is still streaming; "open": a call's arguments are complete only
\* when the stream ends, whatever is streamed after it; "malformed": they never
\* are; "early": a tool goes on after its first result; "restart": the connection
\* breaks and the request is sent again; "abort": the task is cancelled.
AllEvents == {"reject", "refuse", "open", "malformed", "early", "restart", "abort"}

ASSUME SPAssumption ==
    /\ Calls # {} /\ IsFiniteSet(Calls)
    /\ MaxBlocks \in Nat /\ MaxRequests \in Nat
    /\ Events \subseteq AllEvents

VARIABLES
    aborted,       \* abort
    loop,          \* how far makeClineRequestsUnlocked is
    requests,      \* how many times the provider was asked
    streamed,      \* how many blocks the provider has streamed
    content,       \* assistantMessageContent
    didComplete,   \* didCompleteReadingStream
    dropped,       \* getDroppedMalformedToolCalls() is not empty
    uses,          \* assistantToolUses, as recorded in the history
    index,         \* currentStreamingContentIndex (from 1 here)
    locked,        \* presentAssistantMessageLocked
    pending,       \* presentAssistantMessageHasPendingUpdates
    ready,         \* userMessageContentReady
    rejected,      \* didRejectTool
    used,          \* didAlreadyUseTool
    signatures,    \* executedToolCallSignatures
    results,       \* the calls with a tool_result in userMessageContent
    call           \* per call of the presenter: how far it is, and its block

loopVars == <<aborted, loop, requests, streamed, content, didComplete, dropped, uses>>
toolVars == <<rejected, used, signatures, results>>
vars == <<loopVars, toolVars, index, locked, pending, ready, call>>

Kinds == {"text", "read", "act"}        \* "read": PARALLEL_READ_ONLY_TOOLS
Ids == 1 .. MaxBlocks
Blocks == [id : Ids, kind : Kinds, partial : BOOLEAN]
NoCall == [at |-> "none"]
Working == {"work", "preview", "running", "answered", "batch", "batched"}

IsTool(b) == b.kind # "text"
Tools == {k \in 1 .. Len(content) : IsTool(content[k])}
Elements(s) == {s[k] : k \in 1 .. Len(s)}
Busy == {c \in Calls : call[c].at \in Working}

\* The n-th of the positions P, and the ids of the blocks at P in their order.
Nth(P, n) == CHOOSE p \in P : Cardinality({q \in P : q <= p}) = n
IdsAt(P) == [n \in 1 .. Cardinality(P) |-> content[Nth(P, n)].id]

AtBlocks == [at : {"work", "preview", "running", "answered"}, i : Nat, block : Blocks]
AtBatches == [at : {"batch", "batched"}, i : Nat, last : Nat, ids : Seq(Ids)]
Stages == {NoCall, [at |-> "yield"]} \union AtBlocks \union AtBatches

TypeOK ==
    /\ loop \in {"request", "streaming", "broken", "saving", "waiting", "done"}
    /\ requests \in 0 .. MaxRequests
    /\ streamed \in 0 .. MaxBlocks
    /\ content \in Seq(Blocks)
    /\ {aborted, didComplete, dropped, locked, pending, ready, rejected, used} \subseteq BOOLEAN
    /\ uses \in Seq(Ids) /\ results \in Seq(Ids)
    /\ index \in Nat \ {0}
    /\ signatures \subseteq Ids
    /\ call \in [Calls -> Stages]

Init ==
    /\ aborted = FALSE
    /\ loop = "request" /\ requests = 0 /\ streamed = 0
    /\ content = <<>> /\ didComplete = FALSE /\ dropped = FALSE /\ uses = <<>>
    /\ index = 1 /\ locked = FALSE /\ pending = FALSE /\ ready = FALSE
    /\ rejected = FALSE /\ used = FALSE /\ signatures = {} /\ results = <<>>
    /\ call = [c \in Calls |-> NoCall]

-----------------------------------------------------------------------------
(* Entering presentAssistantMessage                                        *)

\* The last block of the run of complete read-only calls that starts at i.
RunEnd(s, i) ==
    LET InRun(j) == \A k \in i .. j : s[k].kind = "read" /\ ~s[k].partial
    IN  CHOOSE j \in (i - 1) .. Len(s) :
            InRun(j) /\ (j = Len(s) \/ ~InRun(j + 1))

\* The synchronous part of a call c, up to its first await.  It sees the new
\* values of content, index and didComplete; lock and rdy are what it finds in
\* presentAssistantMessageLocked and userMessageContentReady.  In an aborted task it throws.
Enter(c, lock, rdy) ==
    LET last == RunEnd(content', index')
        inBounds == index' <= Len(content')
        parallel == inBounds /\ didComplete' /\ last > index'
    IN
    \/ /\ aborted
       /\ locked' = lock /\ ready' = rdy /\ UNCHANGED pending
       /\ call' = [call EXCEPT ![c] = NoCall]
    \/ /\ ~aborted /\ lock
       /\ pending' = TRUE
       /\ locked' = TRUE /\ ready' = rdy
       /\ call' = [call EXCEPT ![c] = NoCall]
    \/ /\ ~aborted /\ ~lock /\ ~inBounds
       /\ ready' = (rdy \/ didComplete')
       /\ locked' = FALSE /\ pending' = FALSE
       /\ call' = [call EXCEPT ![c] = NoCall]
    \/ /\ ~aborted /\ ~lock /\ inBounds
       /\ call' = [call EXCEPT ![c] =
              IF parallel THEN [at |-> "batch", i |-> index', last |-> last, ids |-> <<>>]
                          ELSE [at |-> "work", i |-> index', block |-> content'[index']]]
       /\ locked' = TRUE /\ pending' = FALSE /\ ready' = rdy

\* A call that nobody is in.
Free == {c \in Calls : call[c].at = "none"}
NewCall == CHOOSE c \in Free : TRUE

-----------------------------------------------------------------------------
(* The loop of makeClineRequestsUnlocked                                   *)

\* "Reset streaming state for each new API request".
Reset ==
    /\ requests < MaxRequests
    /\ requests' = requests + 1
    /\ content' = <<>> /\ index' = 1
    /\ results' = <<>> /\ signatures' = {}
    /\ ready' = FALSE /\ rejected' = FALSE /\ used' = FALSE
    /\ locked' = FALSE /\ pending' = FALSE
    /\ dropped' = FALSE /\ uses' = <<>>
    /\ UNCHANGED <<aborted, streamed, call>>

Request ==
    /\ loop = "request" /\ ~aborted
    /\ loop' = "streaming"
    /\ didComplete' = FALSE
    /\ Reset

\* A chunk leaves the blocks in `new`; the presenter is called, and the loop
\* gives up the stream when it sees that a tool was rejected.
Chunk(new) ==
    /\ loop = "streaming" /\ ~aborted
    /\ Cardinality(Free) > 1
    /\ content' = new
    /\ UNCHANGED <<aborted, requests, didComplete, dropped, uses, index, toolVars>>
    /\ Enter(NewCall, locked, ready /\ Len(new) = Len(content))
    /\ loop' = IF rejected THEN "broken" ELSE "streaming"

Partials == {k \in 1 .. Len(content) : content[k].partial}
OpenCalls == {k \in Partials : IsTool(content[k])}
CompleteText == [k \in 1 .. Len(content) |->
                    IF IsTool(content[k]) THEN content[k] ELSE [content[k] EXCEPT !.partial = FALSE]]
NextBlock(kind, partial) == [id |-> streamed + 1, kind |-> kind, partial |-> partial]

\* A new text block begins.
TextChunk ==
    /\ streamed < MaxBlocks
    /\ Partials \subseteq OpenCalls
    /\ streamed' = streamed + 1
    /\ Chunk(Append(content, NextBlock("text", TRUE)))

\* The first delta of a tool call, which may hold all of it, ends the text.
CallChunk ==
    /\ streamed < MaxBlocks
    /\ OpenCalls = {} \/ "open" \in Events
    /\ streamed' = streamed + 1
    /\ \E kind \in {"read", "act"}, partial \in BOOLEAN :
          Chunk(Append(CompleteText, NextBlock(kind, partial)))

\* More of a block that was begun: the block is mutated in place.
MoreChunk ==
    /\ Partials # {}
    /\ \/ Chunk(content)
       \/ \E k \in OpenCalls : Chunk([content EXCEPT ![k].partial = FALSE])
    /\ UNCHANGED streamed

\* The stream is over: every block becomes complete; the calls still open are
\* repaired and move to the end, or (those in Lost) are dropped.
Finalized(Lost) ==
    LET Done(P) == [n \in 1 .. Cardinality(P) |-> [content[Nth(P, n)] EXCEPT !.partial = FALSE]]
    IN  Done((1 .. Len(content)) \ OpenCalls) \o Done({k \in OpenCalls : content[k].id \notin Lost})

StreamEnds ==
    /\ loop \in {"streaming", "broken"} /\ Free # {} /\ ~aborted
    /\ \E Lost \in SUBSET {content[k].id : k \in OpenCalls} :
          /\ Lost = {} \/ "malformed" \in Events
          /\ uses' = IdsAt({k \in Tools : content[k].id \notin Lost})
          /\ content' = Finalized(Lost)
          /\ dropped' = (Lost # {})
    /\ didComplete' = TRUE
    /\ loop' = "saving"
    /\ UNCHANGED <<aborted, requests, streamed, index, toolVars>>
    /\ \/ /\ Partials # {} \/ index <= Len(content')
          /\ Enter(NewCall, locked, ready)
       \/ /\ Partials = {} /\ index > Len(content')
          /\ UNCHANGED <<locked, pending, ready, call>>

\* After the messages are saved: malformed calls are reported to the model at
\* once, or end the turn at the mistake limit; a reply without anything ends it.
Saved ==
    /\ loop = "saving"
    /\ \/ dropped /\ loop' \in {"request", "done"}
       \/ ~dropped /\ content = <<>> /\ loop' = "done"
       \/ ~dropped /\ content # <<>> /\ loop' = "waiting"
    /\ UNCHANGED <<aborted, requests, streamed, content, didComplete, dropped, uses, toolVars,
                   index, locked, pending, ready, call>>

\* Mutant: the wait trusts userMessageContentReady alone.
ProceedOnFlag ==
    /\ loop = "waiting"
    /\ ready
    /\ loop' = IF results = <<>> THEN "done" ELSE "request"
    /\ UNCHANGED <<aborted, requests, streamed, content, didComplete, dropped, uses, toolVars,
                   index, locked, pending, ready, call>>

\* The pWaitFor before the next request.
Proceed ==
    /\ loop = "waiting"
    /\ ready
    /\ aborted \/ Elements(uses) \subseteq Elements(results)
    /\ loop' = IF results = <<>> THEN "done" ELSE "request"
    /\ UNCHANGED <<aborted, requests, streamed, content, didComplete, dropped, uses, toolVars,
                   index, locked, pending, ready, call>>

\* The connection breaks before any tool was executed: stream_restart.
Restart ==
    /\ "restart" \in Events
    /\ loop = "streaming" /\ ~aborted
    /\ signatures = {}
    /\ Reset
    /\ UNCHANGED <<loop, didComplete>>

\* abortTask, between any two steps.
AbortTask ==
    /\ "abort" \in Events
    /\ ~aborted /\ loop \notin {"broken", "done"}
    /\ aborted' = TRUE
    /\ UNCHANGED <<loop, requests, streamed, content, didComplete, dropped, uses, toolVars,
                   index, locked, pending, ready, call>>

\* The stream of an aborted task is over at once (raceStreamNext), and neither
\* that request nor the next one goes on.
TurnAborts ==
    /\ aborted
    /\ loop \in {"request", "streaming"}
    /\ loop' = "done"
    /\ UNCHANGED <<aborted, requests, streamed, content, didComplete, dropped, uses, toolVars,
                   index, locked, pending, ready, call>>

-----------------------------------------------------------------------------
(* Inside presentAssistantMessage                                          *)

\* A second result for the same call is merged into the first.
Answered(id) == IF id \in Elements(results) THEN results ELSE Append(results, id)
AtEnd(i) == didComplete /\ i >= Len(content)

\* Mutant: updates that came in meanwhile are forgotten.
FinishDeaf(c, rdy) ==
    LET i == call[c].i
        advance == ~call[c].block.partial \/ rejected'
        more == advance /\ i < Len(content)
    IN  /\ locked' = FALSE
        /\ index' = IF advance THEN i + 1 ELSE index
        /\ ready' = (ready \/ rdy \/ (advance /\ i = Len(content))
                           \/ (advance /\ ~more /\ used' /\ didComplete))
        /\ call' = [call EXCEPT ![c] = IF more THEN [at |-> "yield"] ELSE NoCall]
        /\ UNCHANGED <<loopVars, pending>>

\* From the end of the switch to the next await.  rdy says that the tool's
\* result has made userMessageContentReady true already.
Finish(c, rdy) ==
    LET i == call[c].i
        advance == ~call[c].block.partial \/ rejected'
        more == advance /\ i < Len(content)
        over == advance /\ ~more
    IN  /\ locked' = FALSE
        /\ index' = IF advance THEN i + 1 ELSE index
        /\ ready' = (ready \/ rdy \/ (advance /\ i = Len(content))
                           \/ (over /\ used' /\ didComplete))
        /\ call' = [call EXCEPT ![c] = IF more \/ pending THEN [at |-> "yield"] ELSE NoCall]
        /\ UNCHANGED <<loopVars, pending>>

\* Mutant: the recursion does not look at the lock.
WakeUnlocked(c) ==
    /\ call[c].at = "yield"
    /\ UNCHANGED <<loopVars, toolVars, index>>
    /\ Enter(c, FALSE, ready)

\* After yieldPromise() the presenter calls itself.
Wake(c) ==
    /\ call[c].at = "yield"
    /\ UNCHANGED <<loopVars, toolVars, index>>
    /\ Enter(c, locked, ready)

AtBlock(c) == call[c].at = "work"
AtCall(c) == AtBlock(c) /\ IsTool(call[c].block)

\* A call that is still streaming: its handler only updates a preview.
Preview(c) ==
    /\ AtCall(c)
    /\ ~rejected /\ call[c].block.partial
    /\ call' = [call EXCEPT ![c].at = "preview"]
    /\ UNCHANGED <<loopVars, toolVars, index, locked, pending, ready>>

\* One of a tool that is not allowed gets its error as a result at once, and
\* once more when it is complete (Begin and Return).
Refuse(c) ==
    /\ "refuse" \in Events
    /\ AtCall(c)
    /\ ~rejected /\ call[c].block.partial
    /\ used' = TRUE
    /\ results' = Answered(call[c].block.id)
    /\ UNCHANGED <<rejected, signatures>>
    /\ Finish(c, FALSE)

\* Text, or such a preview, has been shown.
Shown(c) ==
    /\ \/ AtBlock(c) /\ ~IsTool(call[c].block)
       \/ call[c].at = "preview"
    /\ UNCHANGED toolVars
    /\ Finish(c, FALSE)

\* After a rejection every further call is skipped, complete or not.
Skip(c) ==
    /\ AtCall(c)
    /\ rejected
    /\ results' = Answered(call[c].block.id)
    /\ UNCHANGED <<rejected, used, signatures>>
    /\ Finish(c, FALSE)

\* checkAndRegisterToolCall finds this call, or one with the same arguments,
\* executed already.
Duplicate(c) ==
    /\ AtCall(c)
    /\ ~rejected /\ ~call[c].block.partial
    /\ signatures # {}
    /\ used' = TRUE
    /\ results' = Answered(call[c].block.id)
    /\ UNCHANGED <<rejected, signatures>>
    /\ Finish(c, FALSE)

Begin(c) ==
    /\ AtCall(c)
    /\ ~rejected /\ ~call[c].block.partial
    /\ call[c].block.id \notin signatures
    /\ signatures' = signatures \union {call[c].block.id}
    /\ call' = [call EXCEPT ![c].at = "running"]
    /\ UNCHANGED <<loopVars, rejected, used, results, index, locked, pending, ready>>

\* A command approved with a comment, or a file tool before it resets its
\* diff view: pushToolResult, and the tool goes on.
FirstResult(c) ==
    /\ "early" \in Events
    /\ call[c].at = "running"
    /\ results' = Answered(call[c].block.id)
    /\ used' = TRUE
    /\ ready' = (ready \/ AtEnd(call[c].i))
    /\ call' = [call EXCEPT ![c].at = "answered"]
    /\ UNCHANGED <<loopVars, rejected, signatures, index, locked, pending>>

\* Mutant: a tool's last result lets the loop go on before the tool returns.
ReturnTwice(c) ==
    \/ /\ call[c].at = "running"
       /\ results' = Answered(call[c].block.id)
       /\ used' = TRUE
       /\ ready' = (ready \/ AtEnd(call[c].i))
       /\ call' = [call EXCEPT ![c].at = "answered"]
       /\ UNCHANGED <<loopVars, rejected, signatures, index, locked, pending>>
    \/ /\ call[c].at = "answered"
       /\ UNCHANGED toolVars
       /\ Finish(c, FALSE)

\* The tool returns: a result it did not push is pushed for it.
Return(c) ==
    /\ call[c].at \in {"running", "answered"}
    /\ results' = Answered(call[c].block.id)
    /\ used' = TRUE
    /\ rejected' = rejected
    /\ UNCHANGED signatures
    /\ Finish(c, AtEnd(call[c].i))

\* The user rejects: the tool returns without a result.
Reject(c) ==
    /\ "reject" \in Events
    /\ call[c].at = "running" /\ call[c].block.kind = "act"
    /\ results' = Answered(call[c].block.id)
    /\ used' = TRUE
    /\ rejected' = TRUE
    /\ UNCHANGED signatures
    /\ Finish(c, AtEnd(call[c].i))

\* executeParallelReadOnlyBlocks: the workers run the calls of the batch...
RunBatch(c) ==
    /\ call[c].at = "batch" /\ ~aborted
    /\ LET ids == IdsAt({k \in Tools : k \in call[c].i .. call[c].last /\ ~content[k].partial})
       IN  /\ call' = [call EXCEPT ![c].at = "batched", ![c].ids = ids]
           /\ \/ /\ rejected
                 /\ UNCHANGED <<used, signatures, ready>>
              \/ /\ ~rejected
                 /\ used' = TRUE
                 /\ signatures' = signatures \union Elements(ids)
                 /\ ready' = (ready \/ AtEnd(call[c].last))
    /\ UNCHANGED <<loopVars, rejected, results, index, locked, pending>>

\* Mutant: the lock is freed only if the batch was the whole message.
CommitBatchLocked(c) ==
    /\ call[c].at = "batched"
    /\ results' = results \o call[c].ids
    /\ index' = call[c].last + 1
    /\ UNCHANGED <<loopVars, rejected, used, signatures, locked, pending>>
    /\ ready' = (ready \/ index' > Len(content))
    /\ call' = [call EXCEPT ![c] = NoCall]

\* ... and their results are committed in the order of the calls.
CommitBatch(c) ==
    /\ call[c].at = "batched"
    /\ results' = results \o call[c].ids
    /\ index' = call[c].last + 1
    /\ UNCHANGED <<loopVars, rejected, used, signatures>>
    /\ \/ /\ index' <= Len(content)
          /\ Enter(c, FALSE, ready)
       \/ /\ index' > Len(content)
          /\ ready' = TRUE /\ locked' = FALSE
          /\ call' = [call EXCEPT ![c] = NoCall]
          /\ UNCHANGED pending

\* A worker that begins a call of an aborted task throws: nothing is committed,
\* and the lock is freed.
BatchThrows(c) ==
    /\ aborted
    /\ call[c].at \in {"batch", "batched"}
    /\ locked' = FALSE
    /\ call' = [call EXCEPT ![c] = NoCall]
    /\ UNCHANGED <<loopVars, toolVars, index, pending, ready>>

-----------------------------------------------------------------------------

Present(c) ==
    \/ Wake(c) \/ Preview(c) \/ Refuse(c) \/ Shown(c) \/ Skip(c) \/ Duplicate(c)
    \/ Begin(c) \/ FirstResult(c) \/ Return(c) \/ Reject(c)
    \/ RunBatch(c) \/ CommitBatch(c) \/ BatchThrows(c)

Loop ==
    \/ Request \/ TextChunk \/ CallChunk \/ MoreChunk \/ StreamEnds
    \/ Saved \/ Proceed \/ Restart \/ AbortTask \/ TurnAborts

\* The loop does not wait between breaking off the stream and StreamEnds.
Next ==
    \/ Loop
    \/ \E c \in Calls : loop # "broken" /\ Present(c)

Spec == Init /\ [][Next]_vars

\* Streams end, tools return, and the event loop runs what is due.
FairSpec ==
    /\ Spec
    /\ WF_vars(Request) /\ WF_vars(StreamEnds) /\ WF_vars(Saved) /\ WF_vars(Proceed)
    /\ WF_vars(TurnAborts)
    /\ \A c \in Calls : WF_vars(loop # "broken" /\ Present(c))

-----------------------------------------------------------------------------

\* presentAssistantMessageLocked lets one call at a time handle a block
\* (presentAssistantMessage.ts 97-105).
OnePresenter == Cardinality(Busy) <= 1

\* The lock is never left behind by a call that has returned: whichever way a
\* call ends, the lock it took is free again (presentAssistantMessage.ts
\* 107-140 and 1033).
LockIsHeld == locked => Busy # {}

\* A request that follows tool calls carries one result for each of them, in
\* the order of the calls, and no other result (Task.ts 3442-3516).
ResultsMatch == [][loop = "waiting" /\ loop' # "waiting" => results = uses]_vars

\* A new request leaves only when no tool of the last one is still running.
NothingRunsBehind == [][requests' # requests => Busy = {}]_vars

\* The wait for the results of the tool calls comes to an end, also that of a
\* cancelled task (Task.ts 3440-3441).
WaitResolves == loop = "waiting" ~> loop # "waiting"
=============================================================================
