----------------------- MODULE TaskConversationProofs -----------------------
(***************************************************************************)
(* Theorems about the conversation of a task, for any number of messages,  *)
(* tools, requests and output callbacks: turns exclude each other, the     *)
(* idle test of the queue lifecycle cannot succeed inside a turn, an       *)
(* answer reaches an ask that it was given to, queued messages leave in    *)
(* the order they were typed, none of them is in two places, they are      *)
(* handed out at the boundaries of the agent's turns only, and those of a  *)
(* patient user are not dropped.                                           *)
(***************************************************************************)
EXTENDS MCTaskConversation, SequenceTheorems, FiniteSetTheorems, TLAPS

Pcs == MainPcs \union DrainPcs \union TurnPcs
NoRepeats == \A i, j \in DOMAIN lockQ : lockQ[i] = lockQ[j] => i = j
Queued(t) == \E i \in DOMAIN lockQ : lockQ[i] = t

\* Where a flow can be, and who stands in the promise chain of the lock.
FlowOK ==
    /\ tpc \in [Turners -> Pcs]
    /\ tpc["main"] \in MainPcs \union TurnPcs
    /\ tpc["drain"] \in DrainPcs \union TurnPcs
    /\ lockQ \in Seq(Turners) /\ NoRepeats
    /\ count = Len(lockQ)
    /\ \A t \in Turners : InTurn(t) <=> Queued(t)
    /\ \A t \in Turners : Running(t) => HasLock(t)

\* A flow with an open ask stands at that ask.
AskOK ==
    /\ asks \in [Askers -> [pc : {"none", "stamp", "add", "shown", "wait"}, type : AllAskTypes]]
    /\ \A t \in Turners :
          asks[t].pc # "none" => tpc[t] = IF asks[t].type = "resume_task" THEN "resumeAsk" ELSE "asking"
    /\ \A o \in Outs : asks[o].pc # "none" => asks[o].type = "command_output"

TurnInv == FlowOK /\ AskOK

----------------------------------------------------------------------------
(* How the flows may move                                                  *)

\* A flow that does not join or leave the lock.
Quiet(t) == \/ tpc'[t] = tpc[t]
            \/ ~InTurn(t) /\ ~InTurn(t)'
            \/ Running(t) /\ InTurn(t)'
            \/ tpc[t] = "lock" /\ HasLock(t) /\ InTurn(t)'

PcsTyped == /\ tpc' \in [Turners -> Pcs]
            /\ tpc'["main"] \in MainPcs \union TurnPcs
            /\ tpc'["drain"] \in DrainPcs \union TurnPcs

\* Moves inside a turn, or outside of one, keep the lock as it is.
LEMMA QuietKeeps ==
    ASSUME FlowOK, PcsTyped, UNCHANGED <<lockQ, count>>, \A t \in Turners : Quiet(t)
    PROVE  FlowOK'
<1>1. \A t \in Turners : InTurn(t) <=> InTurn(t)'
  BY DEF Quiet, Running, InTurn, TurnPcs, MainPcs, DrainPcs
<1>2. \A t \in Turners : (InTurn(t) <=> Queued(t))'
  BY <1>1 DEF FlowOK, Queued
<1>3. \A t \in Turners : (Running(t) => HasLock(t))'
  BY <1>1 DEF FlowOK, Quiet, Running, InTurn, HasLock, TurnPcs
<1> QED
  BY <1>2, <1>3 DEF FlowOK, PcsTyped, NoRepeats

\* A flow joins at the end of the promise chain.
LEMMA EnterKeeps ==
    ASSUME FlowOK, PcsTyped, NEW t \in Turners, ~InTurn(t), tpc'[t] = "lock",
           \A u \in Turners \ {t} : tpc'[u] = tpc[u],
           lockQ' = Append(lockQ, t), count' = count + 1
    PROVE  FlowOK'
<1>1. lockQ \in Seq(Turners) /\ NoRepeats /\ ~Queued(t)
  BY DEF FlowOK
<1>2. /\ lockQ' \in Seq(Turners) /\ Len(lockQ') = Len(lockQ) + 1
      /\ \A i \in 1 .. Len(lockQ) : lockQ'[i] = lockQ[i]
      /\ lockQ'[Len(lockQ) + 1] = t
  BY <1>1
<1>6. NoRepeats'
  BY <1>1, <1>2 DEF NoRepeats, Queued
<1>3. \A u \in Turners : Queued(u)' <=> (Queued(u) \/ u = t)
  BY <1>1, <1>2 DEF Queued
<1>4. \A u \in Turners : (InTurn(u) <=> Queued(u))'
  BY <1>3 DEF FlowOK, InTurn, TurnPcs
<1>5. \A u \in Turners : (Running(u) => HasLock(u))'
  <2> SUFFICES ASSUME NEW u \in Turners, Running(u)' PROVE HasLock(u)'
    OBVIOUS
  <2>1. u # t /\ Running(u)
    BY DEF Running
  <2>2. HasLock(u)
    BY <2>1 DEF FlowOK
  <2> QED
    BY <2>2, <1>1, <1>2 DEF HasLock
<1> QED
  BY <1>2, <1>4, <1>5, <1>6 DEF FlowOK, PcsTyped

\* The holder leaves and hands the lock on.
LEMMA LeaveKeeps ==
    ASSUME FlowOK, PcsTyped, NEW t \in Turners, HasLock(t), ~InTurn(t)',
           \A u \in Turners \ {t} : tpc'[u] = tpc[u] \/ (~InTurn(u) /\ ~InTurn(u)'),
           lockQ' = Tail(lockQ), count' = count - 1
    PROVE  FlowOK'
<1>1. lockQ \in Seq(Turners) /\ NoRepeats /\ lockQ # <<>> /\ lockQ[1] = t
  BY DEF FlowOK, HasLock
<1>2. /\ lockQ' \in Seq(Turners) /\ Len(lockQ') = Len(lockQ) - 1
      /\ \A i \in 1 .. Len(lockQ') : lockQ'[i] = lockQ[i + 1]
  BY <1>1
<1>6. NoRepeats'
  BY <1>1, <1>2 DEF NoRepeats
<1>3. \A u \in Turners : Queued(u)' <=> (Queued(u) /\ u # t)
  <2>1. ASSUME NEW u \in Turners, Queued(u), u # t PROVE Queued(u)'
    <3>1. PICK i \in DOMAIN lockQ : lockQ[i] = u
      BY <2>1 DEF Queued
    <3>2. i - 1 \in 1 .. Len(lockQ') /\ lockQ'[i - 1] = lockQ[i]
      BY <1>1, <1>2, <2>1, <3>1
    <3> QED
      BY <1>2, <3>1, <3>2 DEF Queued
  <2>2. ASSUME NEW u \in Turners, Queued(u)' PROVE Queued(u) /\ u # t
    <3>1. PICK i \in DOMAIN lockQ' : lockQ'[i] = u
      BY <2>2 DEF Queued
    <3>2. i + 1 \in DOMAIN lockQ /\ lockQ[i + 1] = u /\ i + 1 # 1
      BY <1>1, <1>2, <3>1
    <3> QED
      BY <1>1, <3>2 DEF Queued, NoRepeats
  <2> QED
    BY <2>1, <2>2
<1>4. \A u \in Turners : (InTurn(u) <=> Queued(u))'
  BY <1>3 DEF FlowOK, InTurn
<1>5. \A u \in Turners : (Running(u) => HasLock(u))'
  <2> SUFFICES ASSUME NEW u \in Turners, Running(u)' PROVE FALSE
    OBVIOUS
  <2>1. u # t /\ Running(u)
    BY DEF Running, InTurn
  <2> QED
    BY <2>1, <1>1 DEF FlowOK, HasLock
<1> QED
  BY <1>2, <1>4, <1>5, <1>6 DEF FlowOK, PcsTyped
----------------------------------------------------------------------------
(* What the steps do to the flows and their asks                           *)

\* A flow stays at its ask while the ask is open.
LEMMA AsksKeep ==
    ASSUME AskOK, PcsTyped, UNCHANGED asks,
           \A t \in Turners : tpc'[t] = tpc[t] \/ tpc[t] \notin {"asking", "resumeAsk"}
    PROVE  AskOK'
BY DEF AskOK

LEMMA AskerSets == Turners \subseteq Askers /\ Outs \subseteq Askers
                   /\ \A o \in Outs : o \notin Turners
BY TCAssumption DEF Askers, Turners

\* Steps that do not touch the flows.
LEMMA SameFlows ==
    ASSUME TurnInv, UNCHANGED flowVars, asks' = asks
    PROVE  TurnInv'
<1>1. FlowOK'
  BY DEF TurnInv, FlowOK, flowVars, NoRepeats, InTurn, Running, HasLock, Queued
<1>2. AskOK'
  BY DEF TurnInv, AskOK, flowVars
<1> QED
  BY <1>1, <1>2 DEF TurnInv

\* The steps in which the user acts.
LEMMA UserKeeps ==
    ASSUME TurnInv, User
    PROVE  TurnInv'
<1>1. \/ tpc' = tpc
      \/ tpc["drain"] = "idle" /\ tpc' = [tpc EXCEPT !["drain"] = "checkpoint"]
  BY DEF User, UserQueues, UserAnswers, UserRejects, UserRemoves, UserPicks, UserApproves, BridgeApproves, Approve,
         Abort, flowVars, ProcessQueue
<1>2. UNCHANGED <<asks, count, lockQ>>
  BY DEF User, UserQueues, UserAnswers, UserRejects, UserRemoves, UserPicks, UserApproves, BridgeApproves, Approve,
         Abort, flowVars, askVars
<1>3. PcsTyped
  BY <1>1 DEF TurnInv, FlowOK, PcsTyped, Turners, Pcs, DrainPcs
<1>4. \A t \in Turners : Quiet(t) /\ (tpc'[t] = tpc[t] \/ tpc[t] = "idle")
  BY <1>1 DEF TurnInv, FlowOK, Quiet, InTurn, TurnPcs, Turners
<1> QED
  BY <1>2, <1>3, <1>4, QuietKeeps, AsksKeep DEF TurnInv

\* The steps of Task#ask: a flow that is done with its ask stays in its turn.
LEMMA AskKeeps ==
    ASSUME TurnInv, NEW a \in Askers, AskStep(a)
    PROVE  TurnInv'
<1> USE AskerSets
<1>1. CASE AskStamp(a) \/ AutoApprove(a) \/ AskWait(a)
  <2>1. UNCHANGED flowVars /\ asks[a].pc # "none"
    BY <1>1 DEF AskStamp, AutoApprove, AskWait, AskMoves
  <2>2. PICK p \in {"add", "shown", "wait"} : asks' = [asks EXCEPT ![a].pc = p]
    BY <1>1 DEF AskStamp, AutoApprove, AskWait, AskMoves
  <2>3. AskOK'
    BY <2>1, <2>2 DEF TurnInv, AskOK, flowVars
  <2>4. FlowOK'
    BY <2>1 DEF TurnInv, FlowOK, flowVars, NoRepeats, InTurn, Running, HasLock, Queued
  <2> QED
    BY <2>3, <2>4 DEF TurnInv
<1>2. CASE AskIgnored(a) \/ AskTake(a) \/ YoloAnswer(a)
  <2>1. PICK kind : /\ \/ tpc' = TpcAfter(a, kind)
                       \/ /\ TpcAfter(a, kind)["drain"] = "idle"
                          /\ tpc' = [TpcAfter(a, kind) EXCEPT !["drain"] = "checkpoint"]
                    /\ asks[a].pc # "none"
    <3>1. CASE AskIgnored(a)
      <4>1. tpc' = TpcAfter(a, "none") /\ asks[a].pc # "none"
        BY <3>1 DEF AskIgnored
      <4> QED
        BY <4>1
    <3>2. CASE AskTake(a)
      <4>1. asks[a].pc # "none"
            /\ ProcessQueue(queue, count, FALSE, TpcAfter(a, response.kind))
        BY <3>2 DEF AskTake
      <4> QED
        BY <4>1 DEF ProcessQueue
    <3>3. CASE YoloAnswer(a)
      <4>1. tpc' = TpcAfter(a, "message") /\ asks[a].pc # "none"
        BY <3>3 DEF YoloAnswer
      <4> QED
        BY <4>1
    <3> QED
      BY <1>2, <3>1, <3>2, <3>3
  <2>2. asks' = [asks EXCEPT ![a] = NoAsk] /\ UNCHANGED <<count, lockQ>>
    BY <1>2 DEF AskIgnored, AskTake, YoloAnswer
  <2>3. \A t \in Turners : tpc[t] \in Pcs
    BY DEF TurnInv, FlowOK
  <2>4. /\ a \in Turners => tpc[a] \in {"asking", "resumeAsk"}
        /\ tpc["drain"] # "resumeAsk"
    BY <2>1 DEF TurnInv, FlowOK, AskOK, DrainPcs, TurnPcs
  <2>5. \A t \in Turners \ {a} : \/ tpc'[t] = tpc[t]
                                 \/ t = "drain" /\ tpc[t] = "idle" /\ tpc'[t] = "checkpoint"
    BY <2>1 DEF TurnInv, FlowOK, TpcAfter, Turners
  <2>6. a \in Turners => \/ tpc[a] = "asking" /\ tpc'[a] \in {"tools", "command"}
                         \/ a = "main" /\ tpc[a] = "resumeAsk" /\ tpc'[a] \in {"read", "ended"}
    BY <2>1, <2>4 DEF TurnInv, FlowOK, TpcAfter, NextPc, Turners
  <2>7. tpc' \in [Turners -> Pcs]
    BY <2>1, <2>3, <2>4 DEF TurnInv, FlowOK, TpcAfter, NextPc, Turners, Pcs, MainPcs, DrainPcs,
                            TurnPcs
  <2>8. PcsTyped
    BY <2>5, <2>6, <2>7 DEF TurnInv, FlowOK, PcsTyped, Turners, MainPcs, DrainPcs, TurnPcs
  <2>9. \A t \in Turners : Quiet(t)
    BY <2>5, <2>6 DEF Quiet, InTurn, Running, TurnPcs, Turners
  <2>10. FlowOK'
    BY <2>2, <2>8, <2>9, QuietKeeps DEF TurnInv
  <2>11. AskOK'
    BY <2>2, <2>5 DEF TurnInv, AskOK, NoAsk, AllAskTypes
  <2> QED
    BY <2>10, <2>11 DEF TurnInv
<1> QED
  BY <1>1, <1>2 DEF AskStep

\* The steps that take the main flow to its turn, and the drain to its own.
LEMMA WayInKeeps ==
    ASSUME TurnInv,
           \/ StartTask \/ ResumeAsk \/ ReadHistory \/ OverwriteHistory \/ MainEnters
           \/ DrainCheckpointed \/ DrainSends \/ QueueTick
    PROVE  TurnInv'
<1> USE AskerSets DEF Turners
<1> USE DEF TurnInv
<1>1. CASE StartTask \/ ReadHistory \/ OverwriteHistory \/ DrainCheckpointed
  <2>1. UNCHANGED <<asks, count, lockQ>>
    BY <1>1 DEF StartTask, ReadHistory, OverwriteHistory, DrainCheckpointed, askVars
  <2>2. PcsTyped
    BY <1>1 DEF StartTask, ReadHistory, OverwriteHistory, DrainCheckpointed, Moves, PcsTyped,
                FlowOK, Pcs, MainPcs, DrainPcs
  <2>3. \A t \in Turners : tpc'[t] = tpc[t] \/ tpc[t] \notin {"asking", "resumeAsk"}
    BY <1>1 DEF StartTask, ReadHistory, OverwriteHistory, DrainCheckpointed, Moves, FlowOK
  <2>6. \A t \in Turners : Quiet(t)
    BY <1>1 DEF StartTask, ReadHistory, OverwriteHistory, DrainCheckpointed, Moves, Quiet,
                FlowOK, InTurn, TurnPcs
  <2>4. FlowOK'
    BY <2>1, <2>2, <2>6, QuietKeeps
  <2>5. AskOK'
    BY <2>1, <2>2, <2>3, AsksKeep
  <2> QED
    BY <2>4, <2>5
<1>2. CASE QueueTick
  <2>1. UNCHANGED <<asks, count, lockQ>>
    BY <1>2 DEF QueueTick, askVars
  <2>2. \/ tpc' = tpc
        \/ tpc["drain"] = "idle" /\ tpc' = [tpc EXCEPT !["drain"] = "checkpoint"]
    BY <1>2 DEF QueueTick, ProcessQueue
  <2>3. PcsTyped
    BY <2>2 DEF FlowOK, PcsTyped, Pcs, DrainPcs
  <2>4. \A t \in Turners : Quiet(t) /\ (tpc'[t] = tpc[t] \/ tpc[t] = "idle")
    BY <2>2 DEF FlowOK, Quiet, InTurn, TurnPcs
  <2> QED
    BY <2>1, <2>3, <2>4, QuietKeeps, AsksKeep
<1>3. CASE ResumeAsk
  <2>1. UNCHANGED <<count, lockQ>> /\ tpc["main"] = "resume"
    BY <1>3 DEF ResumeAsk
  <2>2. \/ tpc' = [tpc EXCEPT !["main"] = "resumeAsk"]
           /\ asks' = [asks EXCEPT !["main"] = [pc |-> "stamp", type |-> "resume_task"]]
        \/ tpc' = [tpc EXCEPT !["main"] = "ended"] /\ asks' = asks
    BY <1>3 DEF ResumeAsk, Moves, BeginAsk
  <2>3. PcsTyped /\ \A t \in Turners : Quiet(t)
    BY <2>1, <2>2 DEF FlowOK, PcsTyped, Pcs, MainPcs, Quiet, InTurn, TurnPcs
  <2>4. asks' \in [Askers -> [pc : {"none", "stamp", "add", "shown", "wait"}, type : AllAskTypes]]
    BY <2>2 DEF AskOK, AllAskTypes
  <2>5. AskOK'
    BY <2>1, <2>2, <2>4 DEF AskOK, FlowOK
  <2> QED
    BY <2>1, <2>3, <2>5, QuietKeeps
<1>4. CASE MainEnters
  <2>1. UNCHANGED asks /\ tpc["main"] = "enter"
    BY <1>4 DEF MainEnters, askVars
  <2>2. CASE aborted /\ Moves("main", "ended") /\ UNCHANGED <<count, lockQ>>
    <3>1. PcsTyped /\ \A t \in Turners : Quiet(t) /\ (tpc'[t] = tpc[t] \/ tpc[t] = "enter")
      BY <2>1, <2>2 DEF Moves, FlowOK, PcsTyped, Pcs, MainPcs, Quiet, InTurn, TurnPcs
    <3> QED
      BY <2>1, <2>2, <3>1, QuietKeeps, AsksKeep
  <2>3. CASE /\ Moves("main", "lock") /\ count' = count + 1
             /\ lockQ' = Append(lockQ, "main")
    <3>1. PcsTyped /\ ~InTurn("main") /\ tpc'["main"] = "lock" /\ tpc'["drain"] = tpc["drain"]
      BY <2>1, <2>3 DEF Moves, FlowOK, PcsTyped, Pcs, MainPcs, InTurn, TurnPcs
    <3>2. FlowOK'
      BY <2>3, <3>1, EnterKeeps
    <3> QED
      BY <2>1, <3>1, <3>2, AsksKeep
  <2> QED
    BY <1>4, <2>2, <2>3 DEF MainEnters
<1>5. CASE DrainSends
  <2>1. /\ UNCHANGED asks /\ tpc["drain"] = "say" /\ Moves("drain", "lock")
        /\ count' = count + 1 /\ lockQ' = Append(lockQ, "drain")
    BY <1>5 DEF DrainSends, askVars
  <2>2. PcsTyped /\ ~InTurn("drain") /\ tpc'["drain"] = "lock" /\ tpc'["main"] = tpc["main"]
    BY <2>1 DEF Moves, FlowOK, PcsTyped, Pcs, DrainPcs, InTurn, TurnPcs
  <2>3. FlowOK'
    BY <2>1, <2>2, EnterKeeps
  <2> QED
    BY <2>1, <2>2, <2>3, AsksKeep
<1> QED
  BY <1>1, <1>2, <1>3, <1>4, <1>5

\* The end of a turn: the holder leaves, whatever processManualMessageQueue does.
LEMMA UnwindKeeps ==
    ASSUME FlowOK, AskOK, NEW t \in Turners, NEW to,
           to \in {"ended", "enter", "idle"}, to = "idle" <=> t = "drain",
           Running(t) \/ (tpc[t] = "lock" /\ HasLock(t)), tpc[t] # "asking",
           Unwinds(t, to), UNCHANGED asks
    PROVE  FlowOK' /\ AskOK'
<1>1. HasLock(t)
  BY DEF FlowOK
<1>2. /\ \/ tpc' = [tpc EXCEPT ![t] = to]
         \/ [tpc EXCEPT ![t] = to]["drain"] = "idle"
            /\ tpc' = [[tpc EXCEPT ![t] = to] EXCEPT !["drain"] = "checkpoint"]
      /\ lockQ' = Tail(lockQ) /\ count' = count - 1
  BY DEF Unwinds, ProcessQueue
<1>3. PcsTyped
  BY <1>2 DEF FlowOK, PcsTyped, Pcs, MainPcs, DrainPcs, Turners
<1>4. ~InTurn(t)'
  BY <1>2 DEF FlowOK, InTurn, TurnPcs, Turners
<1>5. \A u \in Turners \ {t} : tpc'[u] = tpc[u] \/ (~InTurn(u) /\ ~InTurn(u)')
  BY <1>2 DEF FlowOK, InTurn, TurnPcs, Turners
<1>6. FlowOK'
  BY <1>1, <1>2, <1>3, <1>4, <1>5, LeaveKeeps
<1>7. \A u \in Turners : tpc'[u] = tpc[u] \/ tpc[u] \notin {"asking", "resumeAsk"}
  BY <1>2 DEF FlowOK, Running, TurnPcs, Turners
<1>8. AskOK'
  BY <1>3, <1>7, AsksKeep
<1> QED
  BY <1>6, <1>8

\* The steps of an agent turn.
LEMMA TurnKeeps ==
    ASSUME TurnInv, NEW t \in Turners, TurnStep(t)
    PROVE  TurnInv'
<1> USE DEF TurnInv
<1>1. ASSUME NEW to \in TurnPcs, Moves(t, to), tpc[t] \in TurnPcs \ {"lock", "asking"},
             UNCHANGED <<asks, count, lockQ>>
      PROVE  TurnInv'
  <2>1. PcsTyped
    BY <1>1 DEF Moves, FlowOK, PcsTyped, Pcs, Turners
  <2>2. \A u \in Turners : Quiet(u)
    BY <1>1 DEF Moves, FlowOK, Quiet, InTurn, Running, Turners
  <2>3. \A u \in Turners : tpc'[u] = tpc[u] \/ tpc[u] \notin {"asking", "resumeAsk"}
    BY <1>1 DEF Moves, FlowOK, TurnPcs, Turners
  <2>4. FlowOK'
    BY <1>1, <2>1, <2>2, QuietKeeps
  <2>5. AskOK'
    BY <1>1, <2>1, <2>3, AsksKeep
  <2> QED
    BY <2>4, <2>5
<1>2. CASE TurnBegins(t)
  <2>1. UNCHANGED <<asks, count, lockQ>> /\ tpc[t] = "lock" /\ HasLock(t)
        /\ tpc' = [tpc EXCEPT ![t] = "prepare"]
    BY <1>2 DEF TurnBegins, Moves
  <2>2. PcsTyped
    BY <2>1 DEF FlowOK, PcsTyped, Pcs, TurnPcs, Turners
  <2>3. \A u \in Turners : Quiet(u)
    BY <2>1 DEF FlowOK, Quiet, InTurn, Running, TurnPcs, Turners
  <2>4. \A u \in Turners : tpc'[u] = tpc[u] \/ tpc[u] \notin {"asking", "resumeAsk"}
    BY <2>1 DEF FlowOK, Turners
  <2>5. FlowOK'
    BY <2>1, <2>2, <2>3, QuietKeeps
  <2>6. AskOK'
    BY <2>1, <2>2, <2>4, AsksKeep
  <2> QED
    BY <2>5, <2>6
<1>3. CASE RequestSent(t)
  BY <1>1, <1>3 DEF RequestSent, askVars, TurnPcs
<1>4. CASE StreamEnds(t)
  <2>1. UNCHANGED <<asks, count, lockQ>> /\ tpc[t] = "streaming"
    BY <1>4 DEF StreamEnds, askVars
  <2>2. \/ tpc' = [tpc EXCEPT ![t] = "tools"]
        \/ [tpc EXCEPT ![t] = "tools"]["drain"] = "idle"
           /\ tpc' = [[tpc EXCEPT ![t] = "tools"] EXCEPT !["drain"] = "checkpoint"]
    BY <1>4 DEF StreamEnds, ProcessQueue
  <2>3. PcsTyped
    BY <2>1, <2>2 DEF FlowOK, PcsTyped, Pcs, DrainPcs, TurnPcs, Turners
  <2>4. \A u \in Turners : Quiet(u)
    BY <2>1, <2>2 DEF FlowOK, Quiet, InTurn, Running, TurnPcs, Turners
  <2>5. \A u \in Turners : tpc'[u] = tpc[u] \/ tpc[u] \notin {"asking", "resumeAsk"}
    BY <2>1, <2>2 DEF FlowOK, Turners
  <2>6. FlowOK'
    BY <2>1, <2>3, <2>4, QuietKeeps
  <2>7. AskOK'
    BY <2>1, <2>3, <2>5, AsksKeep
  <2> QED
    BY <2>6, <2>7
<1>5. CASE UseTool(t)
  <2>1. PICK type \in AskTypes : BeginAsk(t, type)
    BY <1>5 DEF UseTool
  <2>2. UNCHANGED <<count, lockQ>> /\ tpc[t] = "tools" /\ tpc' = [tpc EXCEPT ![t] = "asking"]
        /\ asks' = [asks EXCEPT ![t] = [pc |-> "stamp", type |-> type]]
    BY <1>5, <2>1 DEF UseTool, Moves, BeginAsk
  <2>3. PcsTyped
    BY <2>2 DEF FlowOK, PcsTyped, Pcs, TurnPcs, Turners
  <2>4. \A u \in Turners : Quiet(u)
    BY <2>2 DEF FlowOK, Quiet, InTurn, Running, TurnPcs, Turners
  <2>5. FlowOK'
    BY <2>2, <2>3, <2>4, QuietKeeps
  <2>6. asks' \in [Askers -> [pc : {"none", "stamp", "add", "shown", "wait"}, type : AllAskTypes]]
    BY <2>1, <2>2 DEF AskOK, AllAskTypes
  <2>7. AskOK'
    BY <2>1, <2>2, <2>6, AskerSets, TCAssumption DEF AskOK, FlowOK, Turners
  <2> QED
    BY <2>5, <2>7
<1>6. CASE CommandReturns(t)
  BY <1>1, <1>6 DEF CommandReturns, askVars, TurnPcs
<1>7. CASE PresentationEnds(t)
  BY <1>1, <1>7 DEF PresentationEnds, askVars, TurnPcs
<1>8. CASE NextRequest(t)
  BY <1>1, <1>8 DEF NextRequest, TurnPcs
<1>9. CASE TurnEnds(t)
  <2>1. UNCHANGED asks /\ Unwinds(t, IF t = "main" THEN "ended" ELSE "idle")
    BY <1>9 DEF TurnEnds, askVars
  <2>2. (Running(t) \/ (tpc[t] = "lock" /\ HasLock(t))) /\ tpc[t] # "asking"
    BY <1>9 DEF TurnEnds, TurnIsOver, Running, TurnPcs
  <2> QED
    BY <2>1, <2>2, UnwindKeeps DEF Turners
<1>10. CASE EmptyReply(t)
  <2>1. UNCHANGED asks /\ Unwinds(t, IF t = "main" THEN "enter" ELSE "idle") /\ tpc[t] = "tools"
    BY <1>10 DEF EmptyReply
  <2>2. Running(t)
    BY <2>1 DEF Running, TurnPcs
  <2> QED
    BY <2>1, <2>2, UnwindKeeps DEF Turners
<1> QED
  BY <1>2, <1>3, <1>4, <1>5, <1>6, <1>7, <1>8, <1>9, <1>10 DEF TurnStep

LEMMA TurnInit == Init => TurnInv
<1> SUFFICES ASSUME Init PROVE TurnInv
  OBVIOUS
<1>1. tpc \in [Turners -> Pcs] /\ tpc["main"] \in {"resume", "start"} /\ tpc["drain"] = "idle"
  BY DEF Init, Turners, Pcs, MainPcs, DrainPcs
<1>2. lockQ = <<>> /\ count = 0
  BY DEF Init
<1>3. FlowOK
  BY <1>1, <1>2 DEF FlowOK, NoRepeats, InTurn, Running, Queued, MainPcs, DrainPcs, TurnPcs, Turners
<1>4. AskOK
  BY AskerSets DEF Init, AskOK, NoAsk, AllAskTypes
<1> QED
  BY <1>3, <1>4 DEF TurnInv

LEMMA TurnStepKeeps == TurnInv /\ [Next]_vars => TurnInv'
<1> SUFFICES ASSUME TurnInv, [Next]_vars PROVE TurnInv'
  OBVIOUS
<1>1. CASE User
  BY <1>1, UserKeeps
<1>2. CASE \/ StartTask \/ ResumeAsk \/ ReadHistory \/ OverwriteHistory \/ MainEnters
           \/ DrainCheckpointed \/ DrainSends \/ QueueTick
  BY <1>2, WayInKeeps
<1>3. CASE \E t \in Turners : TurnStep(t)
  BY <1>3, TurnKeeps
<1>4. CASE \E a \in Askers : AskStep(a)
  BY <1>4, AskKeeps
<1>5. ASSUME NEW o \in Outs, CommandOutput(o) PROVE TurnInv'
  <2>1. UNCHANGED flowVars
        /\ asks' = [asks EXCEPT ![o] = [pc |-> "stamp", type |-> "command_output"]]
    BY <1>5 DEF CommandOutput, BeginAsk
  <2>2. FlowOK'
    BY <2>1 DEF TurnInv, FlowOK, flowVars, NoRepeats, InTurn, Running, HasLock, Queued
  <2>3. AskOK'
    BY <2>1, AskerSets DEF TurnInv, AskOK, flowVars, AllAskTypes
  <2> QED
    BY <2>2, <2>3 DEF TurnInv
<1>6. CASE CommandDies
  BY <1>6, SameFlows DEF CommandDies, askVars
<1>7. CASE UNCHANGED vars
  BY <1>7, SameFlows DEF vars, askVars
<1> QED
  BY <1>1, <1>2, <1>3, <1>4, <1>5, <1>6, <1>7 DEF Next, Task

THEOREM TurnInvariant == Spec => []TurnInv
<1> QED
  BY TurnInit, TurnStepKeeps, PTL DEF Spec

\* acquireTaskRequestLock keeps the two flows apart: for any number of
\* messages, tools and callbacks only one of them is inside
\* makeClineRequestsUnlocked.
THEOREM TurnsExclude == Spec => []OneTurnAtATime
<1>1. TurnInv => OneTurnAtATime
  BY DEF TurnInv, FlowOK, OneTurnAtATime, HasLock
<1> QED
  BY <1>1, TurnInvariant, PTL

\* taskRequestCount counts exactly the flows in the promise chain, so the test
\* of queueLifecycle.ts fails from the request of a turn to its very end.
THEOREM IdleTestIsSound == Spec => []IdleMeansNoTurn
<1>1. TurnInv => IdleMeansNoTurn
  <2> SUFFICES ASSUME TurnInv, count = 0, NEW t \in Turners PROVE ~InTurn(t)
    BY DEF IdleMeansNoTurn, IsIdle
  <2>1. lockQ \in Seq(Turners) /\ Len(lockQ) = 0 /\ (InTurn(t) <=> Queued(t))
    BY DEF TurnInv, FlowOK
  <2> QED
    BY <2>1 DEF Queued
<1> QED
  BY <1>1, TurnInvariant, PTL
----------------------------------------------------------------------------
(* Type correctness, one group of variables at a time                      *)

QueueOK == queue \in Seq(Msgs) /\ held \in Msgs \union {NoMsg} /\ dispatched \in Seq(Msgs)
AnswerOK == /\ response.kind \in {"none", "message", "yes", "no"}
            /\ response.msg \in Msgs \union {NoMsg}
            /\ response.meant \subseteq Askers
            /\ waiting \in BOOLEAN
            /\ live \in Askers \union {NoRow}
WorkOK == /\ ready \in BOOLEAN
          /\ executed \in Nat /\ results \in Nat /\ requests \in Nat
          /\ cmd \in {"none", "running", "quiet"}
RestOK == /\ aborted \in BOOLEAN /\ tick \in BOOLEAN
          /\ history \in Seq(Msgs) /\ snapshot \in Seq(Msgs)
          /\ typed \in 0 .. MaxMsgs
          /\ taken \subseteq Msgs /\ removed \subseteq Msgs

TypeInv == TurnInv /\ QueueOK /\ AnswerOK /\ WorkOK /\ RestOK

LEMMA MsgsAreNat == MaxMsgs \in Nat /\ NoMsg \notin Msgs /\ Restored \in 0 .. MaxMsgs
BY TCAssumption DEF Msgs, NoMsg

LEMMA DequeueTypes ==
    ASSUME dispatched \in Seq(Msgs), NEW q \in Seq(Msgs), q # <<>>, Dequeue(q)
    PROVE  /\ Head(q) \in Msgs /\ queue' \in Seq(Msgs) /\ dispatched' \in Seq(Msgs)
           /\ dispatched'[Len(dispatched')] = Head(q)
BY DEF Dequeue

LEMMA ProcessTypes ==
    ASSUME QueueOK, NEW q \in Seq(Msgs), NEW n, NEW w, NEW tp, ProcessQueue(q, n, w, tp)
    PROVE  QueueOK'
<1>1. CASE q # <<>> /\ Dequeue(q) /\ held' = dispatched'[Len(dispatched')]
  BY <1>1, DequeueTypes DEF QueueOK
<1>2. CASE queue' = q /\ UNCHANGED <<held, dispatched>>
  BY <1>2 DEF QueueOK
<1> QED
  BY <1>1, <1>2 DEF ProcessQueue

LEMMA WorkTypes == TypeInv /\ Next => WorkOK'
<1> SUFFICES ASSUME TypeInv, Next PROVE WorkOK'
  OBVIOUS
<1>1. CASE User
  BY <1>1 DEF User, UserQueues, UserAnswers, UserRejects, UserRemoves, UserPicks, UserApproves,
              BridgeApproves, Approve, Abort, turnVars, WorkOK, TypeInv
<1>2. CASE \/ StartTask \/ ResumeAsk \/ ReadHistory \/ OverwriteHistory \/ MainEnters
           \/ DrainCheckpointed \/ QueueTick
  BY <1>2 DEF StartTask, ResumeAsk, ReadHistory, OverwriteHistory, MainEnters, turnVars,
              DrainCheckpointed, QueueTick, WorkOK, TypeInv
<1>6. CASE DrainSends
  BY <1>6 DEF DrainSends, WorkOK, TypeInv
<1>3. ASSUME NEW t \in Turners, TurnStep(t) PROVE WorkOK'
  <2>1. CASE TurnBegins(t)
    BY <2>1 DEF TurnBegins, WorkOK, TypeInv
  <2>4. CASE RequestSent(t)
    <3>1. /\ ready' = FALSE /\ executed' = 0 /\ results' = 0
          /\ requests' = requests + 1 /\ cmd' = cmd
      BY <2>4 DEF RequestSent
    <3>2. requests + 1 \in Nat /\ cmd \in {"none", "running", "quiet"}
      BY DEF WorkOK, TypeInv
    <3> QED
      BY <3>1, <3>2 DEF WorkOK
  <2>5. CASE PresentationEnds(t)
    BY <2>5 DEF PresentationEnds, WorkOK, TypeInv
  <2>2. CASE CommandReturns(t)
    BY <2>2 DEF CommandReturns, WorkOK, TypeInv
  <2>3. CASE StreamEnds(t) \/ UseTool(t) \/ NextRequest(t) \/ TurnEnds(t) \/ EmptyReply(t)
    BY <2>3 DEF StreamEnds, UseTool, NextRequest, TurnEnds, EmptyReply, turnVars, WorkOK, TypeInv
  <2> QED
    BY <1>3, <2>1, <2>2, <2>3, <2>4, <2>5 DEF TurnStep
<1>4. ASSUME NEW a \in Askers, AskStep(a) PROVE WorkOK'
  <2>1. CASE AskStamp(a) \/ AutoApprove(a) \/ AskWait(a)
    BY <2>1 DEF AskStamp, AutoApprove, AskWait, turnVars, WorkOK, TypeInv
  <2>2. ASSUME NEW kind, Resumes(a, kind) PROVE WorkOK'
    BY <2>2 DEF Resumes, AfterAsk, turnVars, WorkOK, TypeInv
  <2>3. CASE AskIgnored(a)
    BY <2>2, <2>3 DEF AskIgnored
  <2>4. CASE AskTake(a)
    BY <2>2, <2>4 DEF AskTake
  <2>5. CASE YoloAnswer(a)
    BY <2>2, <2>5 DEF YoloAnswer
  <2> QED
    BY <1>4, <2>1, <2>3, <2>4, <2>5 DEF AskStep
<1>5. CASE CommandDies \/ \E o \in Outs : CommandOutput(o)
  BY <1>5 DEF CommandDies, CommandOutput, turnVars, WorkOK, TypeInv
<1> QED
  BY <1>1, <1>2, <1>3, <1>4, <1>5, <1>6 DEF Next, Task

LEMMA QueueTypes == TypeInv /\ Next => QueueOK'
<1> SUFFICES ASSUME TypeInv, Next PROVE QueueOK'
  OBVIOUS
<1> USE DEF TypeInv
<1>1. CASE User
  <2>1. ASSUME NEW m \in Msgs, UserQueues(m) \/ UserAnswers(m) \/ UserRejects(m) PROVE QueueOK'
    <3>1. Append(queue, m) \in Seq(Msgs) /\ Append(queue, m) # <<>>
      BY <2>1 DEF QueueOK
    <3>2. CASE UserQueues(m)
      <4>1. held' = held /\ ProcessQueuedMessages(Append(queue, m))
        BY <3>2 DEF UserQueues
      <4>2. CASE Dequeue(Append(queue, m))
        BY <3>1, <4>1, <4>2, DequeueTypes DEF QueueOK
      <4>3. CASE queue' = Append(queue, m) /\ dispatched' = dispatched
        BY <3>1, <4>1, <4>3 DEF QueueOK
      <4> QED
        BY <4>1, <4>2, <4>3 DEF ProcessQueuedMessages
    <3>3. CASE UserAnswers(m) \/ UserRejects(m)
      <4>1. \/ UNCHANGED <<queue, held, dispatched>>
            \/ \E n, w, tp : ProcessQueue(Append(queue, m), n, w, tp)
        BY <3>3 DEF UserAnswers, UserRejects
      <4> QED
        BY <3>1, <4>1, ProcessTypes DEF QueueOK
    <3> QED
      BY <2>1, <3>2, <3>3
  <2>2. CASE UserRejects(NoMsg)
    BY <2>2, MsgsAreNat DEF UserRejects, Type, NoMsg, QueueOK, RestOK
  <2>3. ASSUME NEW i \in 1 .. MaxMsgs, UserRemoves(i) PROVE QueueOK'
    <3>1. /\ i \in DOMAIN queue /\ UNCHANGED <<held, dispatched>>
          /\ queue' = SubSeq(queue, 1, i - 1) \o SubSeq(queue, i + 1, Len(queue))
      BY <2>3 DEF UserRemoves
    <3> QED
      BY <3>1 DEF QueueOK
  <2>4. CASE UserPicks \/ UserApproves \/ BridgeApproves
    BY <2>4 DEF UserPicks, UserApproves, BridgeApproves, Approve, queueVars, histVars, QueueOK
  <2>5. CASE Abort
    <3>1. queue' = <<>> /\ UNCHANGED <<held, dispatched>>
      BY <2>5 DEF Abort, histVars
    <3> QED
      BY <3>1 DEF QueueOK
  <2> QED
    BY <1>1, <2>1, <2>2, <2>3, <2>4, <2>5 DEF User
<1>2. CASE \/ StartTask \/ ResumeAsk \/ ReadHistory \/ OverwriteHistory \/ MainEnters
           \/ DrainCheckpointed \/ DrainSends \/ CommandDies \/ \E o \in Outs : CommandOutput(o)
  BY <1>2 DEF StartTask, ResumeAsk, ReadHistory, OverwriteHistory, MainEnters, queueVars, histVars,
              DrainCheckpointed, DrainSends, CommandDies, CommandOutput, QueueOK
<1>3. CASE QueueTick
  BY <1>3, ProcessTypes DEF QueueTick, QueueOK
<1>4. ASSUME NEW t \in Turners, TurnStep(t) PROVE QueueOK'
  <2>1. CASE RequestSent(t)
    BY <2>1 DEF RequestSent, histVars, QueueOK
  <2>2. CASE StreamEnds(t) \/ TurnEnds(t) \/ EmptyReply(t)
    <3>1. \E n, w, tp : ProcessQueue(queue, n, w, tp)
      BY <2>2 DEF StreamEnds, TurnEnds, EmptyReply, Unwinds
    <3> QED
      BY <3>1, ProcessTypes DEF QueueOK
  <2>3. CASE TurnBegins(t) \/ UseTool(t) \/ CommandReturns(t) \/ PresentationEnds(t)
             \/ NextRequest(t)
    BY <2>3 DEF TurnBegins, UseTool, CommandReturns, PresentationEnds, NextRequest, queueVars,
                histVars, QueueOK
  <2> QED
    BY <1>4, <2>1, <2>2, <2>3 DEF TurnStep
<1>5. ASSUME NEW a \in Askers, AskStep(a) PROVE QueueOK'
  <2>1. CASE AskStamp(a) \/ AutoApprove(a) \/ AskIgnored(a) \/ YoloAnswer(a)
    BY <2>1 DEF AskStamp, AutoApprove, AskIgnored, YoloAnswer, queueVars, histVars, QueueOK
  <2>2. CASE AskWait(a)
    <3>1. /\ held' = held
          /\ \/ queue # <<>> /\ Dequeue(queue)
             \/ UNCHANGED <<queue, dispatched>>
      BY <2>2 DEF AskWait
    <3> QED
      BY <3>1, DequeueTypes DEF QueueOK
  <2>3. CASE AskTake(a)
    <3>1. ProcessQueue(queue, count, FALSE, TpcAfter(a, response.kind))
      BY <2>3 DEF AskTake
    <3> QED
      BY <3>1, ProcessTypes DEF QueueOK
  <2> QED
    BY <1>5, <2>1, <2>2, <2>3 DEF AskStep
<1> QED
  BY <1>1, <1>2, <1>3, <1>4, <1>5 DEF Next, Task

LEMMA RespondTypes ==
    ASSUME NEW kind \in {"message", "yes", "no"}, NEW m \in Msgs \union {NoMsg},
           NEW a \in Askers \union {NoRow}, AnswerTo(kind, m, a)
    PROVE  /\ response'.kind \in {"none", "message", "yes", "no"}
           /\ response'.msg \in Msgs \union {NoMsg}
           /\ response'.meant \subseteq Askers
BY DEF Respond, AnswerTo, Stamping, AnswerOK

LEMMA ClearTypes ==
    ASSUME response' = NoResponse
    PROVE  /\ response'.kind \in {"none", "message", "yes", "no"}
           /\ response'.msg \in Msgs \union {NoMsg}
           /\ response'.meant \subseteq Askers
BY DEF NoResponse

LEMMA ResponseKeeps ==
    ASSUME AnswerOK, NEW S, response' = [response EXCEPT !.meant = S]
    PROVE  response'.kind = response.kind /\ response'.msg = response.msg
BY DEF AnswerOK

LEMMA AnswerTypes == TypeInv /\ Next => AnswerOK'
<1> SUFFICES ASSUME TypeInv, Next PROVE AnswerOK'
  OBVIOUS
<1> USE DEF TypeInv
<1>1. CASE User
  <2>1. UNCHANGED <<waiting, live>>
    BY <1>1 DEF User, UserQueues, UserAnswers, UserRejects, UserRemoves, UserPicks, UserApproves,
                BridgeApproves, Approve, Abort, askVars
  <2>2. \/ response' = response
        \/ \E kind \in {"message", "yes", "no"}, m \in Msgs \union {NoMsg} : Respond(kind, m)
    <3>1. ASSUME NEW m \in Msgs, UserQueues(m)
          PROVE  response' = response \/ \E n \in Msgs : Respond("message", n)
      <4>1. ProcessQueuedMessages(Append(queue, m))
        BY <3>1 DEF UserQueues
      <4>2. Head(Append(queue, m)) \in Msgs
        BY DEF QueueOK
      <4> QED
        BY <4>1, <4>2 DEF ProcessQueuedMessages
    <3>2. ASSUME NEW m \in Msgs, UserAnswers(m)
          PROVE  response' = response \/ Respond("message", m)
      BY <3>2 DEF UserAnswers
    <3>3. ASSUME NEW m, UserRejects(m) PROVE Respond("no", NoMsg)
      BY <3>3 DEF UserRejects
    <3>4. CASE UserPicks
      BY <3>4 DEF UserPicks
    <3>5. CASE UserApproves \/ BridgeApproves
      BY <3>5 DEF UserApproves, BridgeApproves, Approve
    <3>6. CASE Abort \/ \E i \in 1 .. MaxMsgs : UserRemoves(i)
      BY <3>6 DEF Abort, UserRemoves, askVars
    <3> QED
      BY <1>1, <3>1, <3>2, <3>3, <3>4, <3>5, <3>6 DEF User
  <2> QED
    BY <2>1, <2>2, RespondTypes DEF AnswerOK, Respond
<1>2. CASE \/ StartTask \/ ReadHistory \/ OverwriteHistory \/ MainEnters \/ CommandDies
           \/ DrainCheckpointed \/ DrainSends \/ QueueTick
  <2>1. UNCHANGED <<response, waiting>> /\ live' \in {live, NoRow}
    BY <1>2 DEF StartTask, ReadHistory, OverwriteHistory, MainEnters, CommandDies,
                DrainCheckpointed, DrainSends, QueueTick, askVars
  <2> QED
    BY <2>1 DEF AnswerOK
<1>3. CASE ResumeAsk \/ \E o \in Outs : CommandOutput(o)
  <2>1. UNCHANGED <<waiting, live>> /\ response' \in {response, NoResponse}
    BY <1>3 DEF ResumeAsk, CommandOutput, BeginAsk
  <2> QED
    BY <2>1, ClearTypes DEF AnswerOK
<1>4. ASSUME NEW t \in Turners, TurnStep(t) PROVE AnswerOK'
  <2>1. /\ waiting' = waiting
        /\ live' \in {live, NoRow}
        /\ response' \in {response, NoResponse}
    BY <1>4 DEF TurnStep, TurnBegins, RequestSent, StreamEnds, UseTool, CommandReturns, askVars,
                PresentationEnds, NextRequest, TurnEnds, EmptyReply, BeginAsk
  <2> QED
    BY <2>1, ClearTypes DEF AnswerOK
<1>5. ASSUME NEW a \in Askers, AskStep(a) PROVE AnswerOK'
  <2>1. /\ waiting' \in {waiting, TRUE, FALSE}
        /\ live' \in {live, NoRow, a}
    BY <1>5 DEF AskStep, AskStamp, AutoApprove, AskWait, AskIgnored, AskTake, YoloAnswer
  <2>2. CASE AskWait(a)
    <3>1. response' = response \/ (queue # <<>> /\ Respond("message", Head(queue)))
      BY <2>2 DEF AskWait
    <3>2. queue # <<>> => Head(queue) \in Msgs
      BY DEF QueueOK
    <3> QED
      BY <2>1, <3>1, <3>2, RespondTypes DEF AnswerOK, Respond
  <2>3. CASE AutoApprove(a)
    <3>1. NoMsg \in Msgs \union {NoMsg} /\ AnswerTo("yes", NoMsg, a)
      BY <2>3 DEF AutoApprove
    <3> QED
      BY <2>1, <3>1, RespondTypes DEF AnswerOK
  <2>5. CASE AskIgnored(a)
    <3>1. response' = [response EXCEPT !.meant = @ \ {a}]
      BY <2>5 DEF AskIgnored
    <3>2. /\ response'.kind = response.kind /\ response'.msg = response.msg
          /\ response'.meant \subseteq Askers
      BY <3>1 DEF AnswerOK
    <3> QED
      BY <2>1, <3>2 DEF AnswerOK
  <2>4. CASE AskStamp(a) \/ AskTake(a) \/ YoloAnswer(a)
    <3>1. response' \in {response, NoResponse}
      BY <2>4 DEF AskStamp, AskTake, YoloAnswer
    <3> QED
      BY <2>1, <3>1, ClearTypes DEF AnswerOK
  <2> QED
    BY <1>5, <2>2, <2>3, <2>4, <2>5 DEF AskStep
<1> QED
  BY <1>1, <1>2, <1>3, <1>4, <1>5 DEF Next, Task

\* Which values a step can give to the variables of RestOK.
LEMMA RestWrites ==
    ASSUME Next, typed \in Nat
    PROVE  /\ aborted' \in {aborted, TRUE} /\ snapshot' \in {snapshot, history}
           /\ tick' \in {tick, tick \/ TRUE, tick \/ FALSE, FALSE}
           /\ history' \in {history, snapshot} \/ (held # NoMsg /\ history' = Append(history, held))
           /\ typed' = typed \/ \E m \in Msgs : typed' = m
           /\ taken' \in {taken, (taken \union {response.msg}) \ {NoMsg}}
           /\ removed' = removed \/ \E i \in DOMAIN queue : removed' = removed \union {queue[i]}
<1> USE DEF Next, User, UserQueues, UserAnswers, UserRejects, UserRemoves, UserPicks,
        UserApproves, BridgeApproves, Approve, Abort, Task, StartTask, ResumeAsk, ReadHistory,
        OverwriteHistory, MainEnters, DrainCheckpointed, DrainSends, QueueTick, CommandDies,
        CommandOutput, TurnStep, TurnBegins, RequestSent, StreamEnds, UseTool, CommandReturns,
        PresentationEnds, NextRequest, TurnEnds, EmptyReply, AskStep, AskStamp, AutoApprove,
        AskWait, AskIgnored, AskTake, YoloAnswer
<1>1. aborted' \in {aborted, TRUE} /\ snapshot' \in {snapshot, history}
  BY DEF dataVars
<1>2. tick' \in {tick, tick \/ TRUE, tick \/ FALSE, FALSE}
  BY DEF ProcessQueuedMessages, queueVars
<1>3. history' \in {history, snapshot} \/ (held # NoMsg /\ history' = Append(history, held))
  BY DEF dataVars
<1>4. typed' = typed \/ \E m \in Msgs : typed' = m
  <2>1. typed' = typed \/ \E m \in Msgs \union {NoMsg} : Type(m)
    BY DEF histVars
  <2>2. ASSUME NEW m \in Msgs \union {NoMsg}, Type(m) PROVE m \in Msgs /\ typed' = m
    BY <2>2 DEF Type, NoMsg
  <2> QED
    BY <2>1, <2>2
<1>5. taken' \in {taken, (taken \union {response.msg}) \ {NoMsg}}
  BY DEF histVars
<1>6. removed' = removed \/ \E i \in DOMAIN queue : removed' = removed \union {queue[i]}
  BY DEF histVars
<1> QED
  BY <1>1, <1>2, <1>3, <1>4, <1>5, <1>6

LEMMA RestTypes == TypeInv /\ Next => RestOK'
<1> SUFFICES ASSUME TypeInv, Next PROVE RestOK'
  OBVIOUS
<1>1. typed \in Nat
  BY MsgsAreNat DEF TypeInv, RestOK
<1>2. aborted' \in BOOLEAN /\ tick' \in BOOLEAN /\ snapshot' \in Seq(Msgs)
  BY <1>1, RestWrites DEF TypeInv, RestOK
<1>3. history' \in Seq(Msgs)
  <2>1. CASE history' \in {history, snapshot}
    BY <2>1 DEF TypeInv, RestOK
  <2>2. CASE held # NoMsg /\ history' = Append(history, held)
    <3>1. held \in Msgs /\ history \in Seq(Msgs)
      BY <2>2 DEF TypeInv, RestOK, QueueOK
    <3> QED
      BY <2>2, <3>1
  <2> QED
    BY <1>1, <2>1, <2>2, RestWrites
<1>4. typed' \in 0 .. MaxMsgs
  BY <1>1, RestWrites, MsgsAreNat DEF TypeInv, RestOK, Msgs
<1>5. taken' \subseteq Msgs
  BY <1>1, RestWrites DEF TypeInv, RestOK, AnswerOK
<1>6. removed' \subseteq Msgs
  BY <1>1, RestWrites DEF TypeInv, RestOK, QueueOK
<1> QED
  BY <1>2, <1>3, <1>4, <1>5, <1>6 DEF RestOK

LEMMA TypeInit == Init => TypeInv
<1> SUFFICES ASSUME Init PROVE TypeInv
  OBVIOUS
<1>1. TurnInv
  BY TurnInit
<1>2. QueueOK
  BY MsgsAreNat DEF Init, QueueOK, Msgs
<1>3. AnswerOK
  BY DEF Init, AnswerOK, NoResponse
<1>4. WorkOK
  BY DEF Init, WorkOK
<1>5. history = <<>> /\ snapshot = <<>> /\ typed \in 0 .. MaxMsgs
  BY MsgsAreNat DEF Init
<1>7. aborted = FALSE /\ tick = FALSE /\ taken = {} /\ removed = {}
  BY DEF Init
<1>8. history \in Seq(Msgs) /\ snapshot \in Seq(Msgs)
  BY <1>5
<1>6. RestOK
  BY <1>5, <1>7, <1>8 DEF RestOK
<1> QED
  BY <1>1, <1>2, <1>3, <1>4, <1>6 DEF TypeInv

LEMMA TypeStep == TypeInv /\ [Next]_vars => TypeInv'
<1> SUFFICES ASSUME TypeInv, [Next]_vars PROVE TypeInv'
  OBVIOUS
<1>1. CASE Next
  BY <1>1, TurnStepKeeps, QueueTypes, AnswerTypes, WorkTypes, RestTypes DEF TypeInv
<1>2. CASE UNCHANGED vars
  <2>1. TurnInv'
    BY <1>2, TurnStepKeeps DEF TypeInv
  <2>2. QueueOK' /\ AnswerOK' /\ WorkOK' /\ RestOK'
    BY <1>2 DEF vars, queueVars, askVars, turnVars, dataVars, histVars, TypeInv, QueueOK, AnswerOK,
                WorkOK, RestOK
  <2> QED
    BY <2>1, <2>2 DEF TypeInv
<1> QED
  BY <1>1, <1>2

LEMMA TypeInvariant == Spec => []TypeInv
BY TypeInit, TypeStep, PTL DEF Spec

\* No more than two flows stand in line for the lock.
LEMMA LockIsShort == TurnInv => count \in 0 .. 2
<1> SUFFICES ASSUME TurnInv PROVE Len(lockQ) \in 0 .. 2
  BY DEF TurnInv, FlowOK
<1>1. lockQ \in Seq({"main", "drain"}) /\ NoRepeats
  BY DEF TurnInv, FlowOK, Turners
<1>2. Len(lockQ) \in Nat /\ DOMAIN lockQ = 1 .. Len(lockQ)
  BY <1>1
<1>3. ASSUME Len(lockQ) > 2 PROVE FALSE
  <2>1. 1 \in DOMAIN lockQ /\ 2 \in DOMAIN lockQ /\ 3 \in DOMAIN lockQ
    BY <1>2, <1>3
  <2>2. lockQ[1] # lockQ[2] /\ lockQ[2] # lockQ[3] /\ lockQ[1] # lockQ[3]
    BY <1>1, <2>1 DEF NoRepeats
  <2>3. \A i \in DOMAIN lockQ : lockQ[i] \in {"main", "drain"}
    BY <1>1
  <2> QED
    BY <2>1, <2>2, <2>3
<1> QED
  BY <1>2, <1>3

\* Every variable stays in its type; in particular no more turns are counted
\* than there are flows, and taskRequestCount never falls below zero.
THEOREM TypeCorrect == Spec => []TypeOK
<1>1. TypeInv => TypeOK
  BY LockIsShort DEF TypeInv, TurnInv, FlowOK, AskOK, QueueOK, AnswerOK, WorkOK, RestOK, TypeOK, Pcs
<1> QED
  BY <1>1, TypeInvariant, PTL
----------------------------------------------------------------------------
(* What settles an ask of a turn was given to that ask                      *)

\* An ask that keeps any response there is: it awaits its timestamp, or its row
\* is the latest and it belongs to a turn.
Keeps(a) == \/ asks[a].pc = "stamp"
            \/ /\ asks[a].pc # "none" /\ live = a
               /\ a \in Turners /\ asks[a].type # "resume_task"

AnswerInv == HasResponse => \A a \in Askers : Keeps(a) => a \in response.meant

\* A tool that is approved by itself is the only ask of a turn.
LEMMA OneTurnAsks ==
    ASSUME TurnInv, NEW a \in Turners, NEW b \in Askers,
           asks[a].pc # "none", asks[a].type # "resume_task",
           asks[b].pc # "none", asks[b].type = "tool"
    PROVE  a = b
<1>1. b \in Turners
  BY DEF TurnInv, AskOK, Askers
<1>2. Running(a) /\ Running(b)
  BY <1>1 DEF TurnInv, AskOK, Running, TurnPcs
<1> QED
  BY <1>1, <1>2 DEF TurnInv, FlowOK, HasLock

LEMMA AnswerStep == TurnInv /\ AnswerInv /\ [Next]_vars => AnswerInv'
<1> SUFFICES ASSUME TurnInv, AnswerInv, [Next]_vars PROVE AnswerInv'
  OBVIOUS
<1>0. NoRow \notin Askers
  BY TCAssumption DEF Askers, Turners, NoRow
<1>1. ASSUME response' = response, \A a \in Askers : Keeps(a)' => Keeps(a) PROVE AnswerInv'
  BY <1>1 DEF AnswerInv, HasResponse
<1>2. ASSUME asks' = asks, live' = live, NEW kind, NEW m, Respond(kind, m) PROVE AnswerInv'
  BY <1>0, <1>2 DEF AnswerInv, HasResponse, Keeps, Respond, AnswerTo, Stamping
<1>3. ASSUME response' = NoResponse PROVE AnswerInv'
  BY <1>3 DEF AnswerInv, HasResponse, NoResponse
<1>4. ASSUME asks' = asks, live' \in {live, NoRow}, response' = response PROVE AnswerInv'
  BY <1>0, <1>1, <1>4 DEF Keeps
<1>5. CASE User
  <2>1. asks' = asks /\ live' = live
    BY <1>5 DEF User, UserQueues, UserAnswers, UserRejects, UserRemoves, UserPicks, UserApproves,
                BridgeApproves, Approve, Abort, askVars
  <2>2. response' = response \/ \E kind, m : Respond(kind, m)
    BY <1>5 DEF User, UserQueues, ProcessQueuedMessages, UserAnswers, UserRejects, UserRemoves,
                UserPicks, UserApproves, BridgeApproves, Approve, Abort, askVars
  <2> QED
    BY <2>1, <2>2, <1>2, <1>4
<1>6. CASE \/ StartTask \/ ReadHistory \/ OverwriteHistory \/ MainEnters \/ CommandDies
           \/ DrainCheckpointed \/ DrainSends \/ QueueTick
  BY <1>6, <1>4 DEF StartTask, ReadHistory, OverwriteHistory, MainEnters, CommandDies,
                    DrainCheckpointed, DrainSends, QueueTick, askVars
<1>7. CASE ResumeAsk \/ \E o \in Outs : CommandOutput(o)
  BY <1>7, <1>3, <1>4 DEF ResumeAsk, CommandOutput, BeginAsk
<1>8. ASSUME NEW t \in Turners, TurnStep(t) PROVE AnswerInv'
  BY <1>8, <1>3, <1>4 DEF TurnStep, TurnBegins, RequestSent, StreamEnds, UseTool, CommandReturns,
                          askVars, PresentationEnds, NextRequest, TurnEnds, EmptyReply, BeginAsk
<1>9. ASSUME NEW b \in Askers, AskStep(b) PROVE AnswerInv'
  <2>1. CASE AskTake(b) \/ YoloAnswer(b)
    BY <2>1, <1>3 DEF AskTake, YoloAnswer
  <2>2. CASE AskStamp(b)
    <3>1. /\ response' = response /\ live' = b /\ asks[b].pc = "stamp"
          /\ asks' = [asks EXCEPT ![b].pc = "add"]
      BY <2>2 DEF AskStamp, AskMoves
    <3> QED
      BY <3>1, <1>1 DEF Keeps, TurnInv, AskOK
  <2>3. CASE AskIgnored(b)
    <3>1. /\ response' = [response EXCEPT !.meant = @ \ {b}] /\ live' \in {live, NoRow}
          /\ asks' = [asks EXCEPT ![b] = NoAsk]
      BY <2>3 DEF AskIgnored
    <3>2. \A a \in Askers : Keeps(a)' => a # b /\ Keeps(a)
      BY <3>1, <1>0 DEF Keeps, NoAsk, TurnInv, AskOK
    <3>3. ASSUME HasResponse', NEW a \in Askers, Keeps(a)' PROVE a \in response'.meant
      <4>1. HasResponse
        BY <3>1, <3>3 DEF HasResponse
      <4>2. a # b /\ a \in response.meant
        BY <3>2, <3>3, <4>1 DEF AnswerInv
      <4>3. CASE response.meant \ {b} = response'.meant
        BY <4>2, <4>3
      <4>4. CASE response.meant \ {b} # response'.meant
        BY <3>1, <3>3, <4>2, <4>4 DEF HasResponse
      <4> QED
        BY <4>3, <4>4
    <3> QED
      BY <3>3 DEF AnswerInv
  <2>4. CASE AskWait(b)
    <3>1. PICK p \in {"shown", "add"} : asks[b].pc = p /\ asks' = [asks EXCEPT ![b].pc = "wait"]
      BY <2>4 DEF AskWait, AskMoves
    <3>2. live' = live /\ (response' = response \/ \E kind, m : Respond(kind, m))
      BY <2>4 DEF AskWait
    <3>3. \A a \in Askers : (Keeps(a)' => Keeps(a)) /\ (asks'[a].pc = "stamp" => a \in Stamping)
      BY <3>1, <3>2 DEF Keeps, Stamping, TurnInv, AskOK
    <3> QED
      BY <3>2, <3>3, <1>0, <1>1 DEF AnswerInv, HasResponse, Keeps, Respond, AnswerTo
  <2>5. CASE AutoApprove(b)
    <3>1. /\ asks[b].type = "tool" /\ asks[b].pc = "add"
          /\ asks' = [asks EXCEPT ![b].pc = "shown"] /\ live' = live
          /\ response'.meant = Stamping \union ({b} \ {NoRow})
      BY <2>5 DEF AutoApprove, AskMoves, AnswerTo
    <3>2. ASSUME NEW a \in Askers, Keeps(a)' PROVE a \in response'.meant
      <4>1. CASE a = b
        BY <3>1, <4>1, <1>0
      <4>2. CASE a # b
        <5>1. asks'[a] = asks[a]
          BY <3>1, <4>2 DEF TurnInv, AskOK
        <5>2. CASE asks[a].pc = "stamp"
          BY <3>1, <5>2 DEF Stamping
        <5>3. CASE asks[a].pc # "stamp"
          BY <3>1, <3>2, <4>2, <5>1, <5>3, OneTurnAsks DEF Keeps
        <5> QED
          BY <5>2, <5>3
      <4> QED
        BY <4>1, <4>2
    <3> QED
      BY <3>2 DEF AnswerInv
  <2> QED
    BY <1>9, <2>1, <2>2, <2>3, <2>4, <2>5 DEF AskStep
<1>10. CASE UNCHANGED vars
  BY <1>10, <1>4 DEF vars, askVars
<1> QED
  BY <1>5, <1>6, <1>7, <1>8, <1>9, <1>10 DEF Next, Task

\* Task#ask clears the response before it shows its row: what settles an ask of a
\* turn was given to that row, or while the ask awaited its timestamp.
THEOREM AnswersAreFresh == Spec => NoStaleAnswer
<1>1. Init => AnswerInv
  BY DEF Init, AnswerInv, HasResponse, NoResponse
<1>2. TurnInv => AskOK
  BY DEF TurnInv
<1>3. ASSUME AskOK, AnswerInv, [Next]_vars,
             NEW a \in Turners, asks[a].pc = "wait", asks'[a].pc = "none", live = a,
             asks[a].type # "resume_task"
      PROVE  a \in response.meant
  <2>1. CASE \E b \in Askers : AskStep(b)
    <3>1. PICK b \in Askers : AskStep(b)
      BY <2>1
    <3>2. CASE AskTake(b)
      <4>1. HasResponse /\ asks' = [asks EXCEPT ![b] = NoAsk]
        BY <3>2 DEF AskTake
      <4> QED
        BY <1>3, <4>1 DEF AnswerInv, Keeps, Askers, AskOK
    <3>3. CASE AskIgnored(b) \/ YoloAnswer(b)
      <4>1. /\ asks' = [asks EXCEPT ![b] = NoAsk]
            /\ live # b \/ asks[b].pc = "add"
        BY <3>3 DEF AskIgnored, YoloAnswer
      <4> QED
        BY <1>3, <4>1 DEF AskOK
    <3>4. CASE AskStamp(b) \/ AutoApprove(b) \/ AskWait(b)
      <4>1. PICK p \in {"add", "shown", "wait"} : asks' = [asks EXCEPT ![b].pc = p]
        BY <3>4 DEF AskStamp, AutoApprove, AskWait, AskMoves
      <4> QED
        BY <1>3, <4>1 DEF AskOK
    <3> QED
      BY <3>1, <3>2, <3>3, <3>4 DEF AskStep
  <2>2. CASE \E b, type : BeginAsk(b, type)
    BY <1>3, <2>2 DEF BeginAsk, AskOK
  <2>3. CASE asks' = asks
    BY <1>3, <2>3
  <2>4. \/ \E b \in Askers : AskStep(b)
        \/ \E b, type : BeginAsk(b, type)
        \/ asks' = asks
    BY <1>3 DEF Next, User, UserQueues, UserAnswers, UserRejects, UserRemoves, UserPicks,
         UserApproves, BridgeApproves, Approve, Abort, Task, StartTask, ResumeAsk, ReadHistory,
         OverwriteHistory, MainEnters, DrainCheckpointed, DrainSends, QueueTick, CommandDies,
         CommandOutput, TurnStep, TurnBegins, RequestSent, StreamEnds, UseTool, CommandReturns,
         PresentationEnds, NextRequest, TurnEnds, EmptyReply, vars, askVars
  <2> QED
    BY <2>1, <2>2, <2>3, <2>4
<1>4. AskOK /\ AnswerInv /\ [Next]_vars =>
         [\A t \in Turners :
             (asks[t].pc = "wait" /\ asks'[t].pc = "none" /\ live = t /\ asks[t].type # "resume_task")
                 => t \in response.meant]_vars
  BY <1>3
<1> QED
  BY <1>1, <1>2, <1>4, AnswerStep, TurnInvariant, PTL DEF Spec, NoStaleAnswer
----------------------------------------------------------------------------
(* Messages leave the queue in the order in which they were typed          *)

\* d was handed out, q waits, and n is the last number given.
Ordered(d, q, n) ==
    /\ \A i, j \in DOMAIN d : i < j => d[i] < d[j]
    /\ \A i, j \in DOMAIN q : i < j => q[i] < q[j]
    /\ \A i \in DOMAIN d, j \in DOMAIN q : d[i] < q[j]
    /\ \A i \in DOMAIN d : d[i] <= n
    /\ \A j \in DOMAIN q : q[j] <= n

LEMMA OrderAppend ==
    ASSUME NEW d \in Seq(Nat), NEW q \in Seq(Nat), NEW n \in Nat, Ordered(d, q, n)
    PROVE  Ordered(d, Append(q, n + 1), n + 1) /\ Ordered(d, q, n + 1)
<1> DEFINE r == Append(q, n + 1)
<1>1. /\ r \in Seq(Nat) /\ Len(r) = Len(q) + 1 /\ DOMAIN r = 1 .. Len(r)
      /\ \A i \in 1 .. Len(q) : r[i] = q[i]
      /\ r[Len(q) + 1] = n + 1 /\ DOMAIN q = 1 .. Len(q) /\ Len(q) \in Nat
  OBVIOUS
<1>2. /\ \A i \in DOMAIN d : d[i] \in Nat /\ d[i] < n + 1
      /\ \A i \in DOMAIN q : q[i] \in Nat /\ q[i] < n + 1
  BY DEF Ordered
<1>3. Ordered(d, q, n + 1)
  BY <1>2 DEF Ordered
<1> HIDE DEF r
<1>4. \A i \in DOMAIN r : (i \in DOMAIN q /\ r[i] = q[i]) \/ (i = Len(q) + 1 /\ r[i] = n + 1)
  BY <1>1
<1>5. \A i, j \in DOMAIN r : i < j => r[i] < r[j]
  BY <1>1, <1>2, <1>4 DEF Ordered
<1>6. \A i \in DOMAIN d, j \in DOMAIN r : d[i] < r[j]
  BY <1>2, <1>4 DEF Ordered
<1>7. \A j \in DOMAIN r : r[j] <= n + 1
  BY <1>2, <1>4
<1> QED
  BY <1>3, <1>5, <1>6, <1>7 DEF Ordered, r

LEMMA OrderDequeue ==
    ASSUME NEW d \in Seq(Nat), NEW q \in Seq(Nat), NEW n \in Nat, Ordered(d, q, n), q # <<>>
    PROVE  Ordered(Append(d, Head(q)), Tail(q), n)
<1> DEFINE e == Append(d, Head(q))
           r == Tail(q)
<1>1. /\ Head(q) = q[1] /\ q[1] \in Nat /\ 1 \in DOMAIN q /\ DOMAIN q = 1 .. Len(q)
      /\ Len(q) \in Nat /\ DOMAIN d = 1 .. Len(d) /\ Len(d) \in Nat
  OBVIOUS
<1>2. /\ e \in Seq(Nat) /\ Len(e) = Len(d) + 1 /\ DOMAIN e = 1 .. Len(e)
      /\ \A i \in 1 .. Len(d) : e[i] = d[i]
      /\ e[Len(d) + 1] = q[1]
  BY <1>1
<1>3. /\ r \in Seq(Nat) /\ Len(r) = Len(q) - 1 /\ DOMAIN r = 1 .. Len(r)
      /\ \A i \in 1 .. Len(r) : r[i] = q[i + 1]
  BY <1>1
<1> HIDE DEF e, r
<1>4. \A i \in DOMAIN e : (i \in DOMAIN d /\ e[i] = d[i]) \/ (i = Len(d) + 1 /\ e[i] = q[1])
  BY <1>1, <1>2
<1>5. \A i \in DOMAIN r : i + 1 \in DOMAIN q /\ 1 < i + 1 /\ r[i] = q[i + 1]
  BY <1>1, <1>3
<1>6. ASSUME NEW i \in DOMAIN e, NEW j \in DOMAIN e, i < j PROVE e[i] < e[j]
  <2>1. i \in DOMAIN d /\ e[i] = d[i]
    BY <1>1, <1>2, <1>4, <1>6
  <2>2. CASE j \in DOMAIN d /\ e[j] = d[j]
    BY <1>6, <2>1, <2>2 DEF Ordered
  <2>3. CASE e[j] = q[1]
    BY <1>1, <2>1, <2>3 DEF Ordered
  <2> QED
    BY <1>4, <2>2, <2>3
<1>7. \A i, j \in DOMAIN r : i < j => r[i] < r[j]
  BY <1>3, <1>5 DEF Ordered
<1>8. \A i \in DOMAIN e, j \in DOMAIN r : e[i] < r[j]
  BY <1>1, <1>4, <1>5 DEF Ordered
<1>9. (\A i \in DOMAIN e : e[i] <= n) /\ \A j \in DOMAIN r : r[j] <= n
  BY <1>1, <1>4, <1>5 DEF Ordered
<1> QED
  BY <1>6, <1>7, <1>8, <1>9 DEF Ordered, e, r

\* What removeMessage leaves: the items before and behind the k-th.
Without(q, k) == SubSeq(q, 1, k - 1) \o SubSeq(q, k + 1, Len(q))

LEMMA RemoveItem ==
    ASSUME NEW q \in Seq(Nat), NEW k \in DOMAIN q
    PROVE  /\ DOMAIN Without(q, k) = 1 .. Len(q) - 1
           /\ \A i \in DOMAIN Without(q, k) :
                 /\ i < k => i \in DOMAIN q /\ Without(q, k)[i] = q[i]
                 /\ ~(i < k) => i + 1 \in DOMAIN q /\ Without(q, k)[i] = q[i + 1]
<1> DEFINE a == SubSeq(q, 1, k - 1)
           b == SubSeq(q, k + 1, Len(q))
           r == a \o b
           m == Len(q)
<1>1. k \in 1 .. m /\ DOMAIN q = 1 .. m /\ m \in Nat /\ k \in Nat /\ k >= 1 /\ k <= m
  OBVIOUS
<1>2. a \in Seq(Nat) /\ Len(a) = k - 1 /\ \A i \in 1 .. k - 1 : a[i] = q[i]
  <2>1. 1 \in Int /\ k - 1 \in Int /\ \A i \in 1 .. k - 1 : q[i] \in Nat
    BY <1>1
  <2> QED
    BY <1>1, <2>1, SubSeqProperties
<1>3. b \in Seq(Nat) /\ Len(b) = m - k /\ \A i \in 1 .. m - k : b[i] = q[k + i]
  <2>1. k + 1 \in Int /\ m \in Int /\ \A i \in k + 1 .. m : q[i] \in Nat
    BY <1>1
  <2> HIDE DEF b
  <2>2. /\ b \in Seq(Nat)
        /\ Len(b) = IF k + 1 <= m THEN m - (k + 1) + 1 ELSE 0
        /\ \A i \in 1 .. m - (k + 1) + 1 : b[i] = q[k + 1 + i - 1]
    BY <2>1, SubSeqProperties DEF b
  <2> HIDE DEF m
  <2>3. m - (k + 1) + 1 = m - k /\ (k = m => m - k = 0) /\ (k # m => k + 1 <= m)
    BY <1>1
  <2>4. Len(b) = m - k
    BY <1>1, <2>2, <2>3
  <2>5. ASSUME NEW i \in 1 .. m - k PROVE b[i] = q[k + i]
    <3>1. k + 1 + i - 1 = k + i
      BY <1>1
    <3> QED
      BY <2>2, <2>3, <3>1
  <2> QED
    BY <2>2, <2>4, <2>5
<1> HIDE DEF a, b
<1>4. /\ r \in Seq(Nat) /\ Len(r) = Len(a) + Len(b)
      /\ \A i \in 1 .. Len(a) + Len(b) : r[i] = IF i <= Len(a) THEN a[i] ELSE b[i - Len(a)]
  BY <1>2, <1>3, ConcatProperties
<1> HIDE DEF r, m
<1>5. Len(a) + Len(b) = m - 1 /\ DOMAIN r = 1 .. m - 1
  <2>1. Len(a) + Len(b) = m - 1
    BY <1>1, <1>2, <1>3
  <2> QED
    BY <1>4, <2>1
<1>6. ASSUME NEW i \in DOMAIN r, i < k
      PROVE  i \in DOMAIN q /\ r[i] = q[i]
  <2>1. i \in 1 .. k - 1 /\ i \in 1 .. m /\ i <= Len(a)
    BY <1>1, <1>2, <1>5, <1>6
  <2>2. r[i] = a[i]
    BY <1>4, <1>5, <2>1
  <2> QED
    BY <1>1, <1>2, <2>1, <2>2
<1>7. ASSUME NEW i \in DOMAIN r, ~(i < k)
      PROVE  i + 1 \in DOMAIN q /\ r[i] = q[i + 1]
  <2>1. /\ i - (k - 1) \in 1 .. m - k /\ k + (i - (k - 1)) = i + 1
        /\ i + 1 \in 1 .. m /\ ~(i <= k - 1)
    BY <1>1, <1>5, <1>7
  <2>2. r[i] = b[i - (k - 1)]
    BY <1>2, <1>4, <1>5, <2>1
  <2>3. b[i - (k - 1)] = q[k + (i - (k - 1))]
    BY <1>3, <2>1
  <2> QED
    BY <1>1, <2>1, <2>2, <2>3
<1> QED
  BY <1>5, <1>6, <1>7 DEF Without, r, a, b, m

LEMMA OrderRemove ==
    ASSUME NEW d \in Seq(Nat), NEW q \in Seq(Nat), NEW n \in Nat, Ordered(d, q, n),
           NEW k \in DOMAIN q
    PROVE  Ordered(d, Without(q, k), n)
<1> DEFINE r == Without(q, k)
<1>1. DOMAIN r = 1 .. Len(q) - 1 /\ k \in Nat
  BY RemoveItem
<1>6. \A i \in DOMAIN r : i < k => i \in DOMAIN q /\ r[i] = q[i]
  BY RemoveItem
<1>7. \A i \in DOMAIN r : ~(i < k) => i + 1 \in DOMAIN q /\ r[i] = q[i + 1]
  BY RemoveItem
<1> HIDE DEF r
<1>8. ASSUME NEW i \in DOMAIN r, NEW j \in DOMAIN r, i < j PROVE r[i] < r[j]
  <2>0. i \in Nat /\ j \in Nat
    BY <1>1
  <2>1. CASE j < k
    <3>1. i < k
      BY <1>1, <1>8, <2>0, <2>1
    <3> QED
      BY <1>6, <1>8, <2>1, <3>1 DEF Ordered
  <2>2. CASE ~(j < k) /\ i < k
    <3>1. i < j + 1
      BY <1>8, <2>0
    <3> QED
      BY <1>6, <1>7, <2>2, <3>1 DEF Ordered
  <2>3. CASE ~(j < k) /\ ~(i < k)
    <3>1. i + 1 < j + 1
      BY <1>8, <2>0
    <3> QED
      BY <1>7, <2>3, <3>1 DEF Ordered
  <2> QED
    BY <2>1, <2>2, <2>3
<1>9. \A i \in DOMAIN d, j \in DOMAIN r : d[i] < r[j]
  BY <1>6, <1>7 DEF Ordered
<1>10. \A j \in DOMAIN r : r[j] <= n
  BY <1>6, <1>7 DEF Ordered
<1> QED
  BY <1>8, <1>9, <1>10 DEF Ordered, r

OrderInv == Ordered(dispatched, queue, typed)

LEMMA MsgsSeqsAreNat == \A s \in Seq(Msgs) : s \in Seq(Nat)
<1> SUFFICES ASSUME NEW s \in Seq(Msgs) PROVE s \in Seq(Nat)
  OBVIOUS
<1>1. Msgs \subseteq Nat
  BY DEF Msgs
<1>2. s = [i \in 1 .. Len(s) |-> s[i]] /\ Len(s) \in Nat /\ \A i \in 1 .. Len(s) : s[i] \in Nat
  BY <1>1
<1> QED
  BY <1>2

LEMMA MsgSeqs == TypeInv => queue \in Seq(Nat) /\ dispatched \in Seq(Nat) /\ typed \in Nat
<1> SUFFICES ASSUME TypeInv
             PROVE  queue \in Seq(Nat) /\ dispatched \in Seq(Nat) /\ typed \in Nat
  OBVIOUS
<1>1. queue \in Seq(Msgs) /\ dispatched \in Seq(Msgs) /\ typed \in 0 .. MaxMsgs
  BY DEF TypeInv, QueueOK, RestOK
<1> QED
  BY <1>1, MsgsSeqsAreNat, MsgsAreNat

\* Handing out the head of q, or leaving q as it is, keeps the order.
LEMMA OrderProcess ==
    ASSUME NEW q \in Seq(Nat), NEW k \in Nat, dispatched \in Seq(Nat),
           Ordered(dispatched, q, k), typed' = k,
           \/ q # <<>> /\ Dequeue(q)
           \/ queue' = q /\ dispatched' = dispatched
    PROVE  OrderInv'
<1>1. CASE q # <<>> /\ Dequeue(q)
  BY <1>1, OrderDequeue DEF Dequeue, OrderInv
<1>2. CASE queue' = q /\ dispatched' = dispatched
  BY <1>2 DEF OrderInv
<1> QED
  BY <1>1, <1>2

LEMMA OrderInit == Init => OrderInv
<1> SUFFICES ASSUME Init PROVE OrderInv
  OBVIOUS
<1>1. /\ queue = [i \in 1 .. Restored |-> i] /\ dispatched = <<>> /\ typed = Restored
      /\ Restored \in Nat
  BY MsgsAreNat DEF Init
<1>2. DOMAIN queue = 1 .. Restored /\ DOMAIN dispatched = {} /\ \A i \in DOMAIN queue : queue[i] = i
  BY <1>1
<1> QED
  BY <1>1, <1>2 DEF OrderInv, Ordered

LEMMA OrderStep == TypeInv /\ OrderInv /\ [Next]_vars => OrderInv'
<1> SUFFICES ASSUME TypeInv, OrderInv, [Next]_vars PROVE OrderInv'
  OBVIOUS
<1>0. /\ queue \in Seq(Nat) /\ dispatched \in Seq(Nat) /\ typed \in Nat
      /\ Ordered(dispatched, queue, typed)
  BY MsgSeqs DEF OrderInv
<1>1. /\ Ordered(dispatched, Append(queue, typed + 1), typed + 1)
      /\ Ordered(dispatched, queue, typed + 1)
      /\ Append(queue, typed + 1) \in Seq(Nat) /\ typed + 1 \in Nat
  BY <1>0, OrderAppend
<1>2. CASE UNCHANGED <<queue, dispatched, typed>>
  BY <1>2 DEF OrderInv
<1>3. ASSUME typed' = typed,
             \/ queue # <<>> /\ Dequeue(queue)
             \/ queue' = queue /\ dispatched' = dispatched
      PROVE  OrderInv'
  BY <1>0, <1>3, OrderProcess
<1>4. ASSUME NEW m, m = typed + 1, typed' = m,
             \/ \/ Append(queue, m) # <<>> /\ Dequeue(Append(queue, m))
                \/ queue' = Append(queue, m) /\ dispatched' = dispatched
             \/ queue' = queue /\ dispatched' = dispatched
      PROVE  OrderInv'
  <2>1. CASE queue' = queue /\ dispatched' = dispatched
    BY <1>1, <1>4, <2>1 DEF OrderInv
  <2>2. CASE \/ Append(queue, m) # <<>> /\ Dequeue(Append(queue, m))
             \/ queue' = Append(queue, m) /\ dispatched' = dispatched
    BY <1>0, <1>1, <1>4, <2>2, OrderProcess
  <2> QED
    BY <1>4, <2>1, <2>2
<1>5. CASE User
  <2>1. ASSUME NEW m, UserQueues(m) PROVE OrderInv'
    BY <2>1, <1>4 DEF UserQueues, Type, ProcessQueuedMessages, CanDispatch
  <2>2. ASSUME NEW m, UserAnswers(m) PROVE OrderInv'
    BY <2>2, <1>4 DEF UserAnswers, Type, ProcessQueue
  <2>3. ASSUME NEW m, UserRejects(m) PROVE OrderInv'
    BY <2>3, <1>2, <1>4 DEF UserRejects, Type, ProcessQueue
  <2>4. ASSUME NEW i, UserRemoves(i) PROVE OrderInv'
    <3>1. i \in DOMAIN queue /\ UNCHANGED <<typed, dispatched>>
          /\ queue' = Without(queue, i)
      BY <2>4 DEF UserRemoves, Without
    <3> QED
      BY <1>0, <3>1, OrderRemove DEF OrderInv
  <2>5. CASE UserPicks \/ UserApproves \/ BridgeApproves
    BY <2>5, <1>2 DEF UserPicks, UserApproves, BridgeApproves, Approve, queueVars, histVars
  <2>6. CASE Abort
    <3>1. queue' = <<>> /\ UNCHANGED <<typed, dispatched>>
      BY <2>6 DEF Abort, histVars
    <3>2. DOMAIN queue' = {}
      BY <3>1
    <3> QED
      BY <1>0, <3>1, <3>2 DEF OrderInv, Ordered
  <2> QED
    BY <1>5, <2>1, <2>2, <2>3, <2>4, <2>5, <2>6 DEF User
<1>6. CASE \/ StartTask \/ ResumeAsk \/ ReadHistory \/ OverwriteHistory \/ MainEnters
           \/ DrainCheckpointed \/ DrainSends \/ CommandDies \/ \E o \in Outs : CommandOutput(o)
  BY <1>6, <1>2 DEF StartTask, ResumeAsk, ReadHistory, OverwriteHistory, MainEnters, CommandDies,
                    DrainCheckpointed, DrainSends, CommandOutput, queueVars, histVars
<1>7. CASE QueueTick
  BY <1>7, <1>3 DEF QueueTick, ProcessQueue
<1>8. ASSUME NEW t \in Turners, TurnStep(t) PROVE OrderInv'
  <2>1. CASE StreamEnds(t) \/ TurnEnds(t) \/ EmptyReply(t)
    BY <2>1, <1>3 DEF StreamEnds, TurnEnds, EmptyReply, Unwinds, ProcessQueue
  <2>2. CASE \/ TurnBegins(t) \/ RequestSent(t) \/ UseTool(t) \/ CommandReturns(t)
             \/ PresentationEnds(t) \/ NextRequest(t)
    BY <2>2, <1>2 DEF TurnBegins, RequestSent, UseTool, CommandReturns, PresentationEnds,
                      NextRequest, queueVars, histVars
  <2> QED
    BY <1>8, <2>1, <2>2 DEF TurnStep
<1>9. ASSUME NEW a \in Askers, AskStep(a) PROVE OrderInv'
  <2>1. CASE AskTake(a)
    BY <2>1, <1>3 DEF AskTake, ProcessQueue
  <2>2. CASE AskWait(a)
    BY <2>2, <1>3 DEF AskWait
  <2>3. CASE AskStamp(a) \/ AutoApprove(a) \/ AskIgnored(a) \/ YoloAnswer(a)
    BY <2>3, <1>2 DEF AskStamp, AutoApprove, AskIgnored, YoloAnswer, queueVars, histVars
  <2> QED
    BY <1>9, <2>1, <2>2, <2>3 DEF AskStep
<1>10. CASE UNCHANGED vars
  BY <1>10, <1>2 DEF vars, queueVars, histVars
<1> QED
  BY <1>5, <1>6, <1>7, <1>8, <1>9, <1>10 DEF Next, Task

\* Whatever is handed to the agent from the queue was typed before everything
\* that is handed out later or still waits.
THEOREM QueueIsOrdered == Spec => []QueueInOrder
<1>1. ASSUME TypeInv, OrderInv PROVE QueueInOrder
  <2> DEFINE s == dispatched \o queue
             n == Len(dispatched)
  <2>1. queue \in Seq(Nat) /\ dispatched \in Seq(Nat)
    BY <1>1, MsgSeqs
  <2>2. /\ Len(s) = n + Len(queue)
        /\ \A i \in 1 .. n + Len(queue) : s[i] = IF i <= n THEN dispatched[i] ELSE queue[i - n]
    BY <2>1, ConcatProperties
  <2>3. /\ n \in Nat /\ Len(queue) \in Nat /\ DOMAIN s = 1 .. n + Len(queue)
        /\ DOMAIN dispatched = 1 .. n /\ DOMAIN queue = 1 .. Len(queue)
    BY <2>1, <2>2
  <2> HIDE DEF s, n
  <2>4. ASSUME NEW i \in DOMAIN s
        PROVE  \/ i <= n /\ i \in DOMAIN dispatched /\ s[i] = dispatched[i]
               \/ ~(i <= n) /\ i - n \in DOMAIN queue /\ s[i] = queue[i - n]
    BY <2>2, <2>3
  <2>5. ASSUME NEW i \in DOMAIN s, NEW j \in DOMAIN s, i < j PROVE s[i] < s[j]
    <3>0. i \in Nat /\ j \in Nat
      BY <2>3
    <3>1. CASE j <= n
      <4>1. i <= n
        BY <2>3, <2>5, <3>0, <3>1
      <4> QED
        BY <1>1, <2>4, <2>5, <3>1, <4>1 DEF OrderInv, Ordered
    <3>2. CASE ~(j <= n) /\ i <= n
      BY <1>1, <2>4, <3>2 DEF OrderInv, Ordered
    <3>3. CASE ~(j <= n) /\ ~(i <= n)
      <4>1. i - n < j - n
        BY <2>3, <2>5, <3>0
      <4> QED
        BY <1>1, <2>4, <3>3, <4>1 DEF OrderInv, Ordered
    <3> QED
      BY <3>1, <3>2, <3>3
  <2> QED
    BY <2>5 DEF QueueInOrder, s
<1> QED
  BY <1>1, OrderInit, OrderStep, TypeInvariant, PTL DEF Spec
----------------------------------------------------------------------------
(* A message is in one place                                               *)

\* The drain carries a message to the request of its turn, and in the rest of
\* the turn it has none.
CarryPcs == {"checkpoint", "say", "lock", "prepare"}
BusyPcs == TurnPcs \ {"lock", "prepare"}

InHand == IF tpc["drain"] \in CarryPcs THEN {held} \ {NoMsg} ELSE {}
Answer == {response.msg} \ {NoMsg}
Sent == Items(history) \union Items(snapshot)

\* Five disjoint sets of messages among the first n.
Apart(Q, A, H, T, S, n) ==
    /\ \A m \in Q : m \in 1 .. n /\ m \notin A /\ m \notin H /\ m \notin T /\ m \notin S
    /\ \A m \in A : m \in 1 .. n /\ m \notin H /\ m \notin T /\ m \notin S
    /\ \A m \in H : m \in 1 .. n /\ m \notin T /\ m \notin S
    /\ \A m \in T : m \in 1 .. n /\ m \notin S
    /\ \A m \in S : m \in 1 .. n

Once(s) == \A i, j \in DOMAIN s : s[i] = s[j] => i = j

SentOnce == Once(history) /\ Once(snapshot)
DrainInv == tpc["drain"] \in BusyPcs => held = NoMsg
Placed == Apart(Items(queue), Answer, InHand, taken, Sent, typed)
PlacesInv == Placed /\ SentOnce /\ DrainInv

\* What a step may do to five disjoint sets.
LEMMA ApartShrinks ==
    ASSUME NEW n \in Nat, NEW Q, NEW A, NEW H, NEW T, NEW S, Apart(Q, A, H, T, S, n),
           NEW R \in SUBSET Q, NEW B \in SUBSET A, NEW I \in SUBSET H, NEW U \in SUBSET S
    PROVE  Apart(R, B, I, T, U, n)
BY DEF Apart

LEMMA ApartFresh ==
    ASSUME NEW n \in Nat, NEW Q, NEW A, NEW H, NEW T, NEW S, Apart(Q, A, H, T, S, n)
    PROVE  /\ Apart(Q, A, H, T, S, n + 1)
           /\ Apart(Q \union {n + 1}, A, H, T, S, n + 1)
           /\ Apart(Q, {n + 1}, H, T, S, n + 1)
<1>1. n + 1 \notin 1 .. n /\ n + 1 \in 1 .. (n + 1) /\ 1 .. n \subseteq 1 .. (n + 1)
  OBVIOUS
<1> QED
  BY <1>1, Zenon DEF Apart

LEMMA ApartMoves ==
    ASSUME NEW n \in Nat, NEW Q, NEW A, NEW H, NEW T, NEW S, Apart(Q, A, H, T, S, n)
    PROVE  /\ \A h \in Q : /\ Apart(Q \ {h}, A, {h}, T, S, n)
                           /\ Apart(Q \ {h}, {h}, H, T, S, n)
           /\ Apart(Q, {}, H, T \union A, S, n)
           /\ Apart(Q, A, {}, T, S \union H, n)
BY DEF Apart

LEMMA ItemsAppend ==
    ASSUME NEW s \in Seq(Nat), NEW m \in Nat
    PROVE  Items(Append(s, m)) = Items(s) \union {m}
<1> DEFINE r == Append(s, m)
<1>1. /\ DOMAIN r = 1 .. Len(s) + 1 /\ DOMAIN s = 1 .. Len(s) /\ Len(s) \in Nat
      /\ \A i \in 1 .. Len(s) : r[i] = s[i]
      /\ r[Len(s) + 1] = m
  OBVIOUS
<1> HIDE DEF r
<1>2. \A i \in DOMAIN r : (i \in DOMAIN s /\ r[i] = s[i]) \/ r[i] = m
  BY <1>1
<1>3. \A i \in DOMAIN s : i \in DOMAIN r /\ r[i] = s[i]
  BY <1>1
<1>4. Len(s) + 1 \in DOMAIN r
  BY <1>1
<1>5. Items(r) = Items(s) \union {m}
  BY <1>1, <1>2, <1>3, <1>4 DEF Items
<1> QED
  BY <1>5 DEF r

LEMMA ItemsTail ==
    ASSUME NEW s \in Seq(Nat), s # <<>>, Once(s)
    PROVE  Head(s) \in Items(s) /\ Items(Tail(s)) = Items(s) \ {Head(s)}
<1> DEFINE r == Tail(s)
<1>1. /\ Head(s) = s[1] /\ 1 \in DOMAIN s /\ DOMAIN s = 1 .. Len(s) /\ Len(s) \in Nat
      /\ DOMAIN r = 1 .. Len(s) - 1
      /\ \A i \in 1 .. Len(s) - 1 : r[i] = s[i + 1]
  OBVIOUS
<1> HIDE DEF r
<1>2. \A i \in DOMAIN r : i + 1 \in DOMAIN s /\ r[i] = s[i + 1] /\ i + 1 # 1
  BY <1>1
<1>3. \A i \in DOMAIN s : i # 1 => i - 1 \in DOMAIN r /\ r[i - 1] = s[i]
  BY <1>1
<1>4. \A i \in DOMAIN s : s[i] = s[1] => i = 1
  BY <1>1 DEF Once
<1>5. Items(r) = Items(s) \ {s[1]}
  BY <1>2, <1>3, <1>4 DEF Items
<1> QED
  BY <1>1, <1>5 DEF r, Items

LEMMA ItemsRemove ==
    ASSUME NEW s \in Seq(Nat), NEW k \in DOMAIN s
    PROVE  Items(Without(s, k)) \subseteq Items(s)
BY RemoveItem DEF Items

LEMMA OnceAppend ==
    ASSUME NEW s \in Seq(Nat), NEW m \in Nat, Once(s), m \notin Items(s)
    PROVE  Once(Append(s, m))
<1> DEFINE r == Append(s, m)
<1>1. /\ DOMAIN r = 1 .. Len(s) + 1 /\ DOMAIN s = 1 .. Len(s) /\ Len(s) \in Nat
      /\ \A i \in 1 .. Len(s) : r[i] = s[i]
      /\ r[Len(s) + 1] = m
  OBVIOUS
<1> HIDE DEF r
<1>2. \A i \in DOMAIN r : (i \in DOMAIN s /\ r[i] = s[i]) \/ (i = Len(s) + 1 /\ r[i] = m)
  BY <1>1
<1>4. \A i \in DOMAIN s : s[i] # m
  BY DEF Items
<1>3. Once(r)
  BY <1>2, <1>4 DEF Once
<1> QED
  BY <1>3 DEF r

LEMMA OrderedOnce ==
    ASSUME NEW d, NEW q \in Seq(Nat), NEW n, Ordered(d, q, n)
    PROVE  Once(q)
<1>1. ASSUME NEW i \in DOMAIN q, NEW j \in DOMAIN q, q[i] = q[j] PROVE i = j
  <2>1. i \in Nat /\ j \in Nat /\ q[i] \in Nat /\ q[j] \in Nat
    OBVIOUS
  <2>2. (i < j => q[i] < q[j]) /\ (j < i => q[j] < q[i])
    BY DEF Ordered
  <2> QED
    BY <1>1, <2>1, <2>2
<1> QED
  BY <1>1 DEF Once

\* tp keeps what the drain carries: it is where it was, or further on.
Carries(tp) == /\ tp["drain"] \in CarryPcs => tpc["drain"] \in CarryPcs \union BusyPcs
               /\ tp["drain"] \in BusyPcs => tpc["drain"] \in BusyPcs

LEMMA CarryKeeps ==
    ASSUME DrainInv, held' = held, Carries(tpc')
    PROVE  InHand' \subseteq InHand /\ DrainInv'
<1>1. tpc["drain"] \in BusyPcs => {held} \ {NoMsg} = {}
  BY DEF DrainInv
<1>2. InHand' \subseteq InHand
  BY <1>1 DEF InHand, Carries
<1> QED
  BY <1>2 DEF DrainInv, Carries

LEMMA SameCarries == tpc' = tpc => Carries(tpc')
BY DEF Carries

\* Handing out a message of q, or leaving q as it is.
LEMMA ProcessPlaces ==
    ASSUME dispatched \in Seq(Msgs), DrainInv, NEW q \in Seq(Msgs), Once(q),
           NEW n, NEW w, NEW tp \in [Turners -> Pcs], Carries(tp), ProcessQueue(q, n, w, tp),
           NEW k \in Nat, NEW A, NEW T, NEW S, Apart(Items(q), A, InHand, T, S, k)
    PROVE  Apart(Items(queue'), A, InHand', T, S, k) /\ DrainInv'
<1>1. CASE /\ q # <<>> /\ Dequeue(q) /\ held' = dispatched'[Len(dispatched')]
           /\ tpc' = [tp EXCEPT !["drain"] = "checkpoint"]
  <2>1. q \in Seq(Nat) /\ queue' = Tail(q) /\ held' = Head(q)
    BY <1>1, DequeueTypes, MsgsSeqsAreNat DEF Dequeue
  <2>2. Head(q) \in Items(q) /\ Items(queue') = Items(q) \ {Head(q)}
    BY <1>1, <2>1, ItemsTail
  <2>3. tpc'["drain"] = "checkpoint" /\ Head(q) # NoMsg
    BY <1>1, DequeueTypes, MsgsAreNat DEF Turners
  <2>4. InHand' = {Head(q)} /\ DrainInv'
    BY <2>1, <2>3 DEF InHand, DrainInv, CarryPcs, BusyPcs, TurnPcs
  <2>5. Apart(Items(q) \ {Head(q)}, A, {Head(q)}, T, S, k)
    BY <2>2, ApartMoves
  <2> QED
    BY <2>2, <2>4, <2>5
<1>2. CASE queue' = q /\ tpc' = tp /\ held' = held
  <2>1. InHand' \subseteq InHand /\ DrainInv'
    BY <1>2, CarryKeeps
  <2> QED
    BY <1>2, <2>1, ApartShrinks
<1> QED
  BY <1>1, <1>2 DEF ProcessQueue

\* The history is rewritten only with a copy of itself.
LEMMA SentKeeps ==
    ASSUME SentOnce, history' \in {history, snapshot}, snapshot' \in {snapshot, history}
    PROVE  SentOnce' /\ Sent' \subseteq Sent
BY DEF SentOnce, Sent

LEMMA PlacesInit == Init => PlacesInv
<1> SUFFICES ASSUME Init PROVE PlacesInv
  OBVIOUS
<1>1. /\ queue = [i \in 1 .. Restored |-> i] /\ typed = Restored /\ Restored \in Nat
      /\ history = <<>> /\ snapshot = <<>> /\ taken = {} /\ response.msg = NoMsg
      /\ held = NoMsg
  BY MsgsAreNat DEF Init, NoResponse
<1>2. Items(queue) = 1 .. typed
  BY <1>1 DEF Items
<1>3. Sent = {} /\ Answer = {} /\ InHand = {}
  BY <1>1 DEF Sent, Items, Answer, InHand
<1>4. SentOnce
  BY <1>1 DEF SentOnce, Once
<1> QED
  BY <1>1, <1>2, <1>3, <1>4 DEF PlacesInv, Placed, Apart, DrainInv

LEMMA PlacesStep == TypeInv /\ OrderInv /\ PlacesInv /\ [Next]_vars => PlacesInv'
<1> SUFFICES ASSUME TypeInv, OrderInv, PlacesInv, [Next]_vars PROVE PlacesInv'
  OBVIOUS
<1>1. /\ queue \in Seq(Nat) /\ queue \in Seq(Msgs) /\ dispatched \in Seq(Msgs)
      /\ typed \in Nat /\ Once(queue)
  BY MsgSeqs, OrderedOnce DEF TypeInv, QueueOK, OrderInv
<1>2. Placed /\ SentOnce /\ DrainInv /\ tpc \in [Turners -> Pcs]
  BY DEF PlacesInv, TypeInv, TurnInv, FlowOK
<1>3. Apart(Items(queue), Answer, InHand, taken, Sent, typed)
  BY <1>2 DEF Placed
\* A step after which no place has a message it did not have.
<1>4. ASSUME UNCHANGED <<held, taken, typed>>, Items(queue') \subseteq Items(queue),
             response'.msg \in {response.msg, NoMsg}, Carries(tpc'),
             history' \in {history, snapshot}, snapshot' \in {snapshot, history}
      PROVE  PlacesInv'
  <2>1. Answer' \subseteq Answer
    BY <1>4 DEF Answer
  <2>2. InHand' \subseteq InHand /\ DrainInv' /\ Sent' \subseteq Sent /\ SentOnce'
    BY <1>2, <1>4, CarryKeeps, SentKeeps
  <2>3. Placed'
    BY <1>1, <1>3, <1>4, <2>1, <2>2, ApartShrinks DEF Placed
  <2> QED
    BY <2>2, <2>3 DEF PlacesInv
\* A step that looks at the queue.
<1>5. ASSUME NEW n, NEW w, NEW tp \in [Turners -> Pcs], Carries(tp),
             ProcessQueue(queue, n, w, tp),
             UNCHANGED <<response, taken, typed, history, snapshot>>
      PROVE  PlacesInv'
  <2>1. Apart(Items(queue'), Answer, InHand', taken, Sent, typed) /\ DrainInv'
    BY <1>1, <1>2, <1>3, <1>5, ProcessPlaces
  <2>2. Answer' = Answer /\ Sent' = Sent /\ SentOnce'
    BY <1>2, <1>5 DEF Answer, Sent, SentOnce
  <2> QED
    BY <1>5, <2>1, <2>2 DEF PlacesInv, Placed
<1>6. Carries(tpc)
  BY DEF Carries
<1>7. CASE User
  <2> DEFINE k == typed + 1
             q == Append(queue, k)
  <2>1. /\ k \in Nat /\ q \in Seq(Nat) /\ q # <<>> /\ Items(q) = Items(queue) \union {k}
        /\ Once(q)
    <3>1. k \in Nat /\ q \in Seq(Nat) /\ q # <<>>
      BY <1>1
    <3>2. Items(q) = Items(queue) \union {k}
      BY <1>1, <3>1, ItemsAppend
    <3>3. Ordered(dispatched, q, k)
      BY <1>1, MsgSeqs, OrderAppend DEF OrderInv
    <3> HIDE DEF k, q
    <3>4. Once(q)
      BY <3>1, <3>3, OrderedOnce
    <3> QED
      BY <3>1, <3>2, <3>4
  <2>2. /\ Apart(Items(q), Answer, InHand, taken, Sent, k)
        /\ Apart(Items(queue), {k}, InHand, taken, Sent, k)
    <3>1. /\ Apart(Items(queue) \union {k}, Answer, InHand, taken, Sent, k)
          /\ Apart(Items(queue), {k}, InHand, taken, Sent, k)
      BY <1>1, <1>3, ApartFresh
    <3> QED
      BY <2>1, <3>1
  <2>3. k \in Msgs => q \in Seq(Msgs)
    BY <1>1
  <2> HIDE DEF k, q
  <2>4. ASSUME NEW m \in Msgs, UserQueues(m) PROVE PlacesInv'
    <3>1. /\ typed' = k /\ k \in Msgs /\ ProcessQueuedMessages(q)
          /\ UNCHANGED <<held, tpc, taken, history, snapshot>>
      BY <2>4 DEF UserQueues, Type, flowVars, dataVars, k, q
    <3>2. InHand' = InHand /\ Sent' = Sent /\ SentOnce' /\ DrainInv'
      BY <1>2, <3>1 DEF InHand, Sent, SentOnce, DrainInv
    <3>3. CASE Dequeue(q) /\ Respond("message", Head(q))
      <4>1. Items(queue') = Items(q) \ {Head(q)} /\ Head(q) \in Items(q) /\ Head(q) \in Msgs
        BY <2>1, <2>3, <3>1, <3>3, ItemsTail DEF Dequeue
      <4>2. Answer' = {Head(q)}
        BY <3>3, <4>1, MsgsAreNat DEF Respond, AnswerTo, Answer
      <4>3. Apart(Items(q) \ {Head(q)}, {Head(q)}, InHand, taken, Sent, k)
        BY <2>1, <2>2, <4>1, ApartMoves
      <4> QED
        BY <3>1, <3>2, <4>1, <4>2, <4>3 DEF PlacesInv, Placed
    <3>4. CASE queue' = q /\ response' = response
      BY <2>2, <3>1, <3>2, <3>4 DEF PlacesInv, Placed, Answer
    <3> QED
      BY <3>1, <3>3, <3>4 DEF ProcessQueuedMessages
  <2>5. ASSUME NEW m \in Msgs, UserAnswers(m) PROVE PlacesInv'
    <3>1. typed' = k /\ k \in Msgs /\ m = k /\ UNCHANGED <<taken, history, snapshot>>
      BY <2>5 DEF UserAnswers, Type, dataVars, k
    <3>2. Sent' = Sent /\ SentOnce'
      BY <1>2, <3>1 DEF Sent, SentOnce
    <3>3. CASE Respond("message", k) /\ UNCHANGED <<queue, held, tpc>>
      <4>1. Answer' = {k} /\ InHand' = InHand /\ DrainInv'
        BY <1>2, <3>1, <3>3, MsgsAreNat DEF Respond, AnswerTo, Answer, InHand, DrainInv
      <4> QED
        BY <2>2, <3>1, <3>2, <3>3, <4>1 DEF PlacesInv, Placed
    <3>4. CASE ProcessQueue(q, count, waiting, tpc) /\ response' = response
      <4>1. Apart(Items(queue'), Answer, InHand', taken, Sent, k) /\ DrainInv'
        BY <1>1, <1>2, <1>6, <2>1, <2>2, <2>3, <3>1, <3>4, ProcessPlaces
      <4> QED
        BY <3>1, <3>2, <3>4, <4>1 DEF PlacesInv, Placed, Answer
    <3> QED
      BY <2>5, <3>1, <3>3, <3>4 DEF UserAnswers, k, q
  <2>6. ASSUME NEW m \in Msgs \union {NoMsg}, UserRejects(m) PROVE PlacesInv'
    <3>1. Respond("no", NoMsg) /\ UNCHANGED <<taken, history, snapshot>>
      BY <2>6 DEF UserRejects, dataVars
    <3>2. CASE UNCHANGED <<queue, held, tpc, typed>>
      BY <1>4, <1>6, <3>1, <3>2 DEF Respond, AnswerTo, Carries
    <3>3. CASE Type(m) /\ ProcessQueue(Append(queue, m), count, waiting, tpc)
      <4>1. typed' = k /\ k \in Msgs /\ ProcessQueue(q, count, waiting, tpc)
        BY <1>1, <3>3 DEF Type, NoMsg, k, q
      <4>2. Answer' = {} /\ Sent' = Sent /\ SentOnce'
        BY <1>2, <3>1 DEF Respond, AnswerTo, Answer, Sent, SentOnce
      <4>3. Apart(Items(q), {}, InHand, taken, Sent, k)
        BY <2>1, <2>2, ApartShrinks
      <4>4. Apart(Items(queue'), {}, InHand', taken, Sent, k) /\ DrainInv'
        BY <1>1, <1>2, <1>6, <2>1, <2>3, <4>1, <4>3, ProcessPlaces
      <4> QED
        BY <3>1, <4>1, <4>2, <4>4 DEF PlacesInv, Placed
    <3> QED
      BY <2>6, <3>2, <3>3 DEF UserRejects
  <2>7. ASSUME NEW i, UserRemoves(i) PROVE PlacesInv'
    <3>1. /\ i \in DOMAIN queue /\ queue' = Without(queue, i)
          /\ UNCHANGED <<held, taken, typed, response, tpc, history, snapshot>>
      BY <2>7 DEF UserRemoves, Without, askVars, flowVars, dataVars
    <3> QED
      BY <1>1, <1>4, <1>6, <3>1, ItemsRemove DEF Carries
  <2>8. CASE UserPicks \/ UserApproves \/ BridgeApproves
    <3>1. /\ response'.msg = NoMsg
          /\ UNCHANGED <<held, taken, typed, queue, tpc, history, snapshot>>
      BY <2>8 DEF UserPicks, UserApproves, BridgeApproves, Approve, Respond, AnswerTo, queueVars, flowVars,
                  dataVars, histVars
    <3> QED
      BY <1>4, <1>6, <3>1 DEF Carries
  <2>9. CASE Abort
    <3>1. /\ queue' = <<>>
          /\ UNCHANGED <<held, taken, typed, response, tpc, history, snapshot>>
      BY <2>9 DEF Abort, askVars, flowVars, dataVars, histVars
    <3>2. Items(queue') = {}
      BY <3>1 DEF Items
    <3> QED
      BY <1>4, <1>6, <3>1, <3>2 DEF Carries
  <2> QED
    BY <1>7, <2>4, <2>5, <2>6, <2>7, <2>8, <2>9 DEF User
<1>8. CASE \/ StartTask \/ ResumeAsk \/ ReadHistory \/ OverwriteHistory \/ MainEnters
           \/ DrainCheckpointed \/ DrainSends \/ CommandDies \/ \E o \in Outs : CommandOutput(o)
  <2>1. UNCHANGED <<held, taken, typed, queue>> /\ history' \in {history, snapshot}
        /\ snapshot' \in {snapshot, history}
    BY <1>8 DEF StartTask, ResumeAsk, ReadHistory, OverwriteHistory, MainEnters, CommandDies,
                DrainCheckpointed, DrainSends, CommandOutput, queueVars, dataVars, histVars
  <2>2. response' \in {response, NoResponse}
    BY <1>8 DEF StartTask, ResumeAsk, ReadHistory, OverwriteHistory, MainEnters, CommandDies,
                DrainCheckpointed, DrainSends, CommandOutput, BeginAsk, askVars
  <2>3. \/ tpc' = tpc \/ \E to : tpc' = [tpc EXCEPT !["main"] = to]
        \/ tpc["drain"] = "checkpoint" /\ tpc' = [tpc EXCEPT !["drain"] = "say"]
        \/ tpc["drain"] = "say" /\ tpc' = [tpc EXCEPT !["drain"] = "lock"]
    BY <1>8 DEF StartTask, ResumeAsk, ReadHistory, OverwriteHistory, MainEnters, CommandDies,
                DrainCheckpointed, DrainSends, CommandOutput, Moves, flowVars
  <2>4. Carries(tpc')
    BY <1>2, <2>3 DEF Carries, CarryPcs, BusyPcs, TurnPcs, Turners
  <2> QED
    BY <1>4, <2>1, <2>2, <2>4 DEF NoResponse
<1>9. CASE QueueTick
  BY <1>2, <1>5, <1>6, <1>9 DEF QueueTick, askVars, dataVars
<1>10. ASSUME NEW t \in Turners, TurnStep(t) PROVE PlacesInv'
  <2>1. CASE TurnBegins(t) \/ UseTool(t) \/ CommandReturns(t) \/ PresentationEnds(t)
             \/ NextRequest(t)
    <3>1. UNCHANGED <<held, taken, typed, queue, history, snapshot>>
          /\ response' \in {response, NoResponse}
      BY <2>1 DEF TurnBegins, UseTool, CommandReturns, PresentationEnds, NextRequest, queueVars,
                  dataVars, histVars, BeginAsk, askVars
    <3>3. PICK to \in TurnPcs : /\ tpc' = [tpc EXCEPT ![t] = to]
                                /\ (tpc[t] = "lock" /\ to = "prepare") \/ tpc[t] \in BusyPcs
      BY <2>1 DEF TurnBegins, UseTool, CommandReturns, PresentationEnds, NextRequest, Moves,
                  TurnPcs, BusyPcs
    <3>4. ASSUME t = "drain" PROVE Carries(tpc')
      <4>1. tpc'["drain"] = to
        BY <1>2, <3>3, <3>4 DEF Turners
      <4> QED
        BY <3>3, <3>4, <4>1 DEF Carries, CarryPcs, BusyPcs, TurnPcs
    <3>5. ASSUME t = "main" PROVE Carries(tpc')
      <4>1. tpc'["drain"] = tpc["drain"]
        BY <1>2, <3>3, <3>5 DEF Turners
      <4> QED
        BY <4>1 DEF Carries
    <3>6. Carries(tpc')
      BY <3>4, <3>5 DEF Turners
    <3> QED
      BY <1>4, <3>1, <3>6 DEF NoResponse
  <2>2. CASE StreamEnds(t)
    <3> DEFINE tp == [tpc EXCEPT ![t] = "tools"]
    <3>1. tpc[t] = "streaming" /\ ProcessQueue(queue, count, waiting, tp)
          /\ UNCHANGED <<response, taken, typed, history, snapshot>>
      BY <2>2 DEF StreamEnds, askVars, dataVars
    <3>2. tp \in [Turners -> Pcs] /\ Carries(tp)
      BY <1>2, <3>1 DEF Pcs, Carries, CarryPcs, BusyPcs, TurnPcs, Turners
    <3> QED
      BY <1>5, <3>1, <3>2
  <2>3. CASE TurnEnds(t) \/ EmptyReply(t)
    <3>1. PICK to \in {"ended", "enter", "idle"} :
                  ProcessQueue(queue, count - 1, waiting, [tpc EXCEPT ![t] = to])
      BY <2>3 DEF TurnEnds, EmptyReply, Unwinds
    <3> DEFINE tp == [tpc EXCEPT ![t] = to]
    <3>2. UNCHANGED <<response, taken, typed, history, snapshot>>
      BY <2>3 DEF TurnEnds, EmptyReply, askVars, dataVars
    <3>3. tp \in [Turners -> Pcs] /\ Carries(tp)
      BY <1>2 DEF Pcs, MainPcs, DrainPcs, Carries, CarryPcs, BusyPcs, TurnPcs, Turners
    <3> QED
      BY <1>5, <3>1, <3>2, <3>3
  <2>4. CASE RequestSent(t) /\ t = "drain" /\ held # NoMsg
    <3>1. /\ tpc["drain"] = "prepare" /\ history' = Append(history, held) /\ held' = NoMsg
          /\ tpc' = [tpc EXCEPT !["drain"] = "streaming"]
          /\ UNCHANGED <<queue, response, taken, typed, snapshot>>
      BY <2>4 DEF RequestSent, Moves, askVars, histVars
    <3>2. InHand = {held} /\ InHand' = {} /\ DrainInv' /\ Answer' = Answer
      BY <1>2, <2>4, <3>1 DEF InHand, CarryPcs, DrainInv, Answer, Turners
    <3>3. history \in Seq(Nat) /\ held \in Nat
      BY <2>4, MsgsSeqsAreNat DEF TypeInv, RestOK, QueueOK, Msgs
    <3>4. Sent' = Sent \union {held}
      BY <3>1, <3>3, ItemsAppend DEF Sent
    <3>5. Apart(Items(queue), Answer, {}, taken, Sent \union {held}, typed)
      BY <1>1, <1>3, <3>2, ApartMoves
    <3>8. Placed'
      BY <3>1, <3>2, <3>4, <3>5 DEF Placed
    <3>6. held \notin Items(history)
      BY <1>3, <3>2 DEF Apart, Sent
    <3>7. SentOnce'
      BY <1>2, <3>1, <3>3, <3>6, OnceAppend DEF SentOnce
    <3> QED
      BY <3>2, <3>7, <3>8 DEF PlacesInv
  <2>5. CASE RequestSent(t) /\ ~(t = "drain" /\ held # NoMsg)
    <3>1. /\ tpc[t] = "prepare" /\ tpc' = [tpc EXCEPT ![t] = "streaming"]
          /\ UNCHANGED <<held, queue, response, taken, typed, history, snapshot>>
      BY <2>5 DEF RequestSent, Moves, askVars, histVars
    <3>2. CASE t = "drain"
      <4>1. InHand' = {} /\ DrainInv'
        BY <1>2, <2>5, <3>1, <3>2 DEF InHand, CarryPcs, DrainInv, Turners
      <4>2. Answer' = Answer /\ Sent' = Sent /\ SentOnce'
        BY <1>2, <3>1 DEF Answer, Sent, SentOnce
      <4>3. Placed'
        BY <1>1, <1>3, <3>1, <4>1, <4>2, ApartShrinks DEF Placed
      <4> QED
        BY <4>1, <4>2, <4>3 DEF PlacesInv
    <3>3. CASE t = "main"
      <4>1. Carries(tpc')
        BY <1>2, <3>1, <3>3 DEF Carries, Turners
      <4> QED
        BY <1>4, <3>1, <4>1
    <3> QED
      BY <3>2, <3>3 DEF Turners
  <2> QED
    BY <1>10, <2>1, <2>2, <2>3, <2>4, <2>5 DEF TurnStep
<1>11. ASSUME NEW a \in Askers, AskStep(a) PROVE PlacesInv'
  <2>1. ASSUME NEW kind, asks[a].pc # "none"
        PROVE  TpcAfter(a, kind) \in [Turners -> Pcs] /\ Carries(TpcAfter(a, kind))
    <3>1. a \notin Outs => a \in Turners
      BY DEF Askers
    <3>2. a \in Turners => tpc[a] \in {"asking", "resumeAsk"}
      BY <2>1 DEF TypeInv, TurnInv, AskOK
    <3>3. tpc["drain"] # "resumeAsk"
      BY DEF TypeInv, TurnInv, FlowOK, DrainPcs, TurnPcs
    <3>4. NextPc(a, kind) \in Pcs /\ (tpc[a] = "asking" => NextPc(a, kind) \in BusyPcs)
      BY DEF NextPc, Pcs, MainPcs, TurnPcs, BusyPcs
    <3> QED
      BY <1>2, <3>1, <3>2, <3>3, <3>4 DEF TpcAfter, Carries, CarryPcs, BusyPcs, TurnPcs, Turners
  <2>2. CASE AskStamp(a) \/ AutoApprove(a)
    <3>1. /\ response'.msg \in {response.msg, NoMsg}
          /\ UNCHANGED <<held, taken, typed, queue, tpc, history, snapshot>>
      BY <2>2 DEF AskStamp, AutoApprove, Respond, AnswerTo, queueVars, flowVars, dataVars, histVars
    <3> QED
      BY <1>4, <1>6, <3>1 DEF Carries
  <2>3. CASE AskIgnored(a) \/ YoloAnswer(a)
    <3>1. /\ asks[a].pc # "none"
          /\ UNCHANGED <<held, taken, typed, queue, history, snapshot>>
          /\ \E kind : tpc' = TpcAfter(a, kind)
      BY <2>3 DEF AskIgnored, YoloAnswer, queueVars, dataVars, histVars
    <3>2. Carries(tpc')
      BY <2>1, <3>1
    <3>3. response' = [response EXCEPT !.meant = @ \ {a}] \/ response' = NoResponse
      BY <2>3 DEF AskIgnored, YoloAnswer
    <3>4. response'.msg \in {response.msg, NoMsg}
      <4>1. CASE response' = [response EXCEPT !.meant = @ \ {a}]
        BY <4>1, ResponseKeeps
      <4> QED
        BY <3>3, <4>1 DEF NoResponse
    <3> QED
      BY <1>4, <3>1, <3>2, <3>4
  <2>4. CASE AskWait(a)
    <3>1. UNCHANGED <<held, tpc, taken, typed, history, snapshot>>
      BY <2>4 DEF AskWait, flowVars, dataVars
    <3>2. CASE queue # <<>> /\ Dequeue(queue) /\ Respond("message", Head(queue))
      <4>1. /\ Items(queue') = Items(queue) \ {Head(queue)} /\ Head(queue) \in Items(queue)
            /\ Head(queue) \in Msgs
        BY <1>1, <3>2, ItemsTail DEF Dequeue
      <4>2. Answer' = {Head(queue)}
        BY <3>2, <4>1, MsgsAreNat DEF Respond, AnswerTo, Answer
      <4>3. InHand' = InHand /\ Sent' = Sent /\ SentOnce' /\ DrainInv'
        BY <1>2, <3>1 DEF InHand, Sent, SentOnce, DrainInv
      <4>4. Apart(Items(queue) \ {Head(queue)}, {Head(queue)}, InHand, taken, Sent, typed)
        BY <1>1, <1>3, <4>1, ApartMoves
      <4> QED
        BY <3>1, <4>1, <4>2, <4>3, <4>4 DEF PlacesInv, Placed
    <3>3. CASE queue' = queue /\ response' = response
      BY <1>4, <1>6, <3>1, <3>3 DEF Carries
    <3> QED
      BY <2>4, <3>2, <3>3 DEF AskWait
  <2>5. CASE AskTake(a)
    <3> DEFINE tp == TpcAfter(a, response.kind)
    <3>1. /\ ProcessQueue(queue, count, FALSE, tp) /\ asks[a].pc # "none"
          /\ response' = NoResponse /\ taken' = (taken \union {response.msg}) \ {NoMsg}
          /\ UNCHANGED <<typed, history, snapshot>>
      BY <2>5 DEF AskTake, dataVars
    <3>2. Answer' = {} /\ Sent' = Sent /\ SentOnce'
      BY <1>2, <3>1 DEF NoResponse, Answer, Sent, SentOnce
    <3>3. taken' = taken \union Answer
      BY <3>1, MsgsAreNat DEF Answer, TypeInv, RestOK
    <3>4. Apart(Items(queue), {}, InHand, taken', Sent, typed)
      BY <1>1, <1>3, <3>3, ApartMoves
    <3>5. tp \in [Turners -> Pcs] /\ Carries(tp)
      BY <2>1, <3>1
    <3> HIDE DEF tp
    <3>6. Apart(Items(queue'), {}, InHand', taken', Sent, typed) /\ DrainInv'
      BY <1>1, <1>2, <3>1, <3>4, <3>5, ProcessPlaces
    <3> QED
      BY <3>1, <3>2, <3>6 DEF PlacesInv, Placed
  <2> QED
    BY <1>11, <2>2, <2>3, <2>4, <2>5 DEF AskStep
<1>12. CASE UNCHANGED vars
  BY <1>4, <1>6, <1>12 DEF vars, queueVars, askVars, flowVars, dataVars, histVars, Carries
<1> QED
  BY <1>7, <1>8, <1>9, <1>10, <1>11, <1>12 DEF Next, Task

\* queueMessage, askResponse and processManualMessageQueue pass a message on
\* and never copy it.
THEOREM MessagesAreUnique == Spec => []NothingTwice
<1>1. ASSUME PlacesInv PROVE NothingTwice
  <2>1. ASSUME NEW m \in Msgs
        PROVE  Cardinality({p \in {"queue", "held", "response", "taken", "history"} :
                          \/ p = "queue" /\ m \in Items(queue)
                          \/ p = "held" /\ Held(m)
                          \/ p = "response" /\ response.msg = m
                          \/ p = "taken" /\ m \in taken
                          \/ p = "history" /\ m \in Items(history)}) <= 1
    <3> DEFINE P == {p \in {"queue", "held", "response", "taken", "history"} :
                          \/ p = "queue" /\ m \in Items(queue)
                          \/ p = "held" /\ Held(m)
                          \/ p = "response" /\ response.msg = m
                          \/ p = "taken" /\ m \in taken
                          \/ p = "history" /\ m \in Items(history)}
    <3>1. m # NoMsg
      BY MsgsAreNat
    <3>2. /\ Held(m) => m \in InHand
          /\ response.msg = m => m \in Answer
          /\ m \in Items(history) => m \in Sent
      BY <3>1 DEF Held, InHand, CarryPcs, Answer, Sent
    <3>3. Apart(Items(queue), Answer, InHand, taken, Sent, typed)
      BY <1>1 DEF PlacesInv, Placed
    <3>4. \A p, q \in P : p = q
      BY <3>2, <3>3 DEF Apart
    <3>5. P = {} \/ \E p : P = {p}
      BY <3>4
    <3>6. CASE P = {}
      <4>1. Cardinality(P) = 0
        BY <3>6, FS_EmptySet, Zenon
      <4> QED
        BY <4>1
    <3>7. CASE \E p : P = {p}
      <4>1. Cardinality(P) = 1
        BY <3>7, FS_Singleton, Zenon
      <4> QED
        BY <4>1
    <3> QED
      BY <3>5, <3>6, <3>7
  <2> QED
    BY <1>1, <2>1 DEF NothingTwice, PlacesInv, SentOnce, Once
<1> QED
  BY <1>1, PlacesInit, PlacesStep, OrderInit, OrderStep, TypeInvariant, PTL DEF Spec

----------------------------------------------------------------------------
(* The queue is handed out at its boundaries                               *)

\* A step that hands a message out: the queue was looked at while no turn is
\* counted, or a completion ask is on screen.
LEMMA ProcessAtRest ==
    ASSUME TypeInv, NEW q, NEW n, NEW w, NEW tp, ProcessQueue(q, n, w, tp),
           Len(dispatched') > Len(dispatched)
    PROVE  n = 0 /\ q # <<>> /\ tp["drain"] = "idle"
<1>1. Len(dispatched) \in Nat
  BY DEF TypeInv, QueueOK
<1> QED
  BY <1>1 DEF ProcessQueue, IsIdle

LEMMA BoundaryStep ==
    ASSUME TypeInv, Next, Len(dispatched') > Len(dispatched)
    PROVE  \/ OnScreen({"completion_result"}) \/ OnScreen({"completion_result"})'
           \/ \A t \in Turners : ~InTurn(t)'
<1>1. TurnInv'
  BY TurnStepKeeps DEF TypeInv
<1>2. ASSUME count' = 0 PROVE \A t \in Turners : ~InTurn(t)'
  <2>1. lockQ' \in Seq(Turners) /\ Len(lockQ') = 0
    BY <1>1, <1>2 DEF TurnInv, FlowOK, Turners
  <2>2. \A i \in DOMAIN lockQ' : FALSE
    BY <2>1
  <2>3. \A t \in Turners : InTurn(t)' => Queued(t)'
    BY <1>1 DEF TurnInv, FlowOK, Turners
  <2> QED
    BY <2>2, <2>3 DEF Queued
<1>3. dispatched' # dispatched
  <2>1. Len(dispatched) \in Nat
    BY DEF TypeInv, QueueOK
  <2> QED
    BY <2>1
<1>4. ASSUME NEW q, NEW w, NEW tp, ProcessQueue(q, count', w, tp)
      PROVE  \A t \in Turners : ~InTurn(t)'
  BY <1>2, <1>4, ProcessAtRest
<1>5. CASE User
  <2>1. ASSUME NEW m, UserAnswers(m) \/ UserRejects(m) PROVE \A t \in Turners : ~InTurn(t)'
    <3>1. count' = count /\ ProcessQueue(Append(queue, m), count, waiting, tpc)
      BY <1>3, <2>1 DEF UserAnswers, UserRejects
    <3> QED
      BY <1>4, <3>1
  <2>2. ASSUME NEW m, UserQueues(m) PROVE OnScreen({"completion_result"})
    BY <1>3, <2>2 DEF UserQueues, ProcessQueuedMessages, CanDispatch, OnScreen, IsCompletion
  <2> QED
    BY <1>3, <1>5, <2>1, <2>2 DEF User, UserRemoves, UserPicks, UserApproves, BridgeApproves,
                                  Approve, Abort, histVars
<1>6. CASE \/ StartTask \/ ResumeAsk \/ ReadHistory \/ OverwriteHistory \/ MainEnters
           \/ DrainCheckpointed \/ DrainSends \/ CommandDies \/ \E o \in Outs : CommandOutput(o)
  BY <1>3, <1>6 DEF StartTask, ResumeAsk, ReadHistory, OverwriteHistory, MainEnters, histVars,
                    DrainCheckpointed, DrainSends, CommandDies, CommandOutput
<1>7. CASE QueueTick
  <2>1. count' = count /\ ProcessQueue(queue, count, waiting, tpc)
    BY <1>7 DEF QueueTick
  <2> QED
    BY <1>4, <2>1
<1>8. ASSUME NEW t \in Turners, TurnStep(t) PROVE \A u \in Turners : ~InTurn(u)'
  <2>1. CASE StreamEnds(t) \/ TurnEnds(t) \/ EmptyReply(t)
    <3>1. \E w, tp : ProcessQueue(queue, count', w, tp)
      BY <2>1 DEF StreamEnds, TurnEnds, EmptyReply, Unwinds
    <3> QED
      BY <1>4, <3>1
  <2>2. CASE TurnBegins(t) \/ RequestSent(t) \/ UseTool(t) \/ CommandReturns(t)
             \/ PresentationEnds(t) \/ NextRequest(t)
    BY <1>3, <2>2 DEF TurnBegins, RequestSent, UseTool, CommandReturns, PresentationEnds,
                      NextRequest, histVars
  <2> QED
    BY <1>8, <2>1, <2>2 DEF TurnStep
<1>9. ASSUME NEW a \in Askers, AskStep(a)
      PROVE  OnScreen({"completion_result"}) \/ \A t \in Turners : ~InTurn(t)'
  <2>1. CASE AskWait(a)
    BY <1>3, <2>1 DEF AskWait, IsCompletion, AskMoves, OnScreen
  <2>2. CASE AskTake(a)
    <3>1. count' = count /\ ProcessQueue(queue, count, FALSE, TpcAfter(a, response.kind))
      BY <2>2 DEF AskTake
    <3> QED
      BY <1>4, <3>1
  <2>3. CASE AskStamp(a) \/ AutoApprove(a) \/ AskIgnored(a) \/ YoloAnswer(a)
    BY <1>3, <2>3 DEF AskStamp, AutoApprove, AskIgnored, YoloAnswer, histVars
  <2> QED
    BY <1>9, <2>1, <2>2, <2>3 DEF AskStep
<1> QED
  BY <1>5, <1>6, <1>7, <1>8, <1>9 DEF Next, Task

\* queueLifecycle.ts and processManualMessageQueue hand a message out only to a
\* completion ask or while the agent is between turns.
THEOREM QueueWaitsForBoundary == Spec => QueueOnlyAtBoundary
<1>1. ASSUME TypeInv, [Next]_vars, Len(dispatched') > Len(dispatched)
      PROVE  \/ OnScreen({"completion_result"}) \/ OnScreen({"completion_result"})'
             \/ \A t \in Turners : ~InTurn(t)'
  <2>1. dispatched' # dispatched
    <3>1. Len(dispatched) \in Nat
      BY <1>1 DEF TypeInv, QueueOK
    <3> QED
      BY <1>1, <3>1
  <2>2. Next
    BY <1>1, <2>1 DEF vars, histVars
  <2> QED
    BY <1>1, <2>2, BoundaryStep
<1> QED
  BY <1>1, TypeInvariant, PTL DEF Spec, QueueOnlyAtBoundary

----------------------------------------------------------------------------
(* A patient user's messages are not dropped                               *)

\* A new task whose user waits for the first turn and answers an ask once.
Patient == ~Resumed /\ ~EagerUser /\ ~EarlyUser /\ ~EmptyReplies

\* One flow at a time is at work: the queue is not drained before the main flow is
\* through with its turn, and then that does not come back.
FlowsAt(tp, n) ==
    /\ tp["main"] \in {"start", "enter", "ended"} \union TurnPcs
    /\ tp["drain"] # "idle" => tp["main"] = "ended"
    /\ n > 0 => tp["main"] \notin {"start", "enter"}
FlowInv == FlowsAt(tpc, typed)

\* Its ask is on screen, and an answer is there only while it waits.
OneAskInv ==
    /\ \A o \in Outs : asks[o].pc = "none"
    /\ \A t \in Turners : asks[t].pc \in {"add", "shown", "wait"} => live = t
    /\ waiting => \E t \in Turners : asks[t].pc = "wait"
    /\ response.msg # NoMsg => waiting /\ HasResponse

\* Where a message that was typed is.
Kept(m) == \/ m \in Items(queue) \/ Held(m) \/ response.msg = m
           \/ m \in taken \/ m \in Items(history) \/ m \in removed

CalmInv == FlowInv /\ OneAskInv /\ NothingDropped

\* What is in the queue was typed.
LEMMA QueuedIsTyped == TypeInv /\ PlacesInv /\ queue # <<>> => typed > 0
<1> SUFFICES ASSUME TypeInv, PlacesInv, queue # <<>> PROVE typed > 0
  OBVIOUS
<1>1. queue \in Seq(Nat) /\ typed \in Nat
  BY MsgSeqs
<1>2. 1 \in DOMAIN queue
  BY <1>1
<1>3. queue[1] \in 1 .. typed
  BY <1>2 DEF PlacesInv, Placed, Apart, Items
<1> QED
  BY <1>1, <1>3

\* A flow that is at work and does not ask is the only one, and nobody asks.
LEMMA NobodyAsks ==
    ASSUME TurnInv, FlowInv, NEW t \in Turners,
           tpc[t] \in {"start", "checkpoint", "say"} \union (TurnPcs \ {"asking"})
    PROVE  \A u \in Turners : asks[u].pc = "none"
<1>1. \A u \in Turners : asks[u].pc # "none" => tpc[u] = "asking"
  BY DEF TurnInv, FlowOK, AskOK, FlowInv, FlowsAt, MainPcs, DrainPcs, TurnPcs, Turners
<1>2. tpc["main"] # "asking" \/ tpc["drain"] = "idle"
  BY DEF FlowInv, FlowsAt
<1>3. ASSUME t = "main" PROVE tpc["main"] # "asking" /\ tpc["drain"] # "asking"
  BY <1>3 DEF FlowInv, FlowsAt, TurnPcs
<1>4. ASSUME t = "drain" PROVE tpc["main"] # "asking" /\ tpc["drain"] # "asking"
  BY <1>4 DEF FlowInv, FlowsAt, TurnPcs
<1> QED
  BY <1>1, <1>3, <1>4 DEF Turners

LEMMA OneAsks ==
    ASSUME TurnInv, FlowInv, NEW t \in Turners, asks[t].pc # "none"
    PROVE  tpc[t] = "asking" /\ \A u \in Turners \ {t} : asks[u].pc = "none"
<1>1. \A u \in Turners : asks[u].pc # "none" => tpc[u] = "asking"
  BY DEF TurnInv, FlowOK, AskOK, FlowInv, FlowsAt, MainPcs, DrainPcs, TurnPcs, Turners
<1> QED
  BY <1>1 DEF FlowInv, FlowsAt, Turners

\* A look at the queue lets the drain begin when the main flow is through.
LEMMA ProcessFlows ==
    ASSUME TurnInv', NEW q, NEW w, NEW tp \in [Turners -> Pcs], FlowsAt(tp, typed'),
           q # <<>> => typed' > 0, ProcessQueue(q, count', w, tp)
    PROVE  FlowInv'
<1>1. ASSUME count' = 0 PROVE tpc'["main"] \notin TurnPcs
  <2>1. lockQ' \in Seq(Turners) /\ Len(lockQ') = 0
    BY <1>1 DEF TurnInv, FlowOK, Turners
  <2>2. \A i \in DOMAIN lockQ' : FALSE
    BY <2>1
  <2>3. tpc'["main"] \in TurnPcs => \E i \in DOMAIN lockQ' : TRUE
    BY DEF TurnInv, FlowOK, InTurn, Queued, Turners, TurnPcs
  <2> QED
    BY <2>2, <2>3
<1>2. CASE tpc' = tp
  BY <1>2 DEF FlowInv, FlowsAt, TurnPcs
<1>3. CASE q # <<>> /\ IsIdle(count', w, tp) /\ tpc' = [tp EXCEPT !["drain"] = "checkpoint"]
  <2>1. tpc'["main"] = tp["main"] /\ count' = 0
    BY <1>3 DEF IsIdle, Turners
  <2>2. tp["main"] = "ended"
    BY <1>1, <1>3, <2>1 DEF FlowsAt
  <2> QED
    BY <2>1, <2>2 DEF FlowInv, FlowsAt
<1> QED
  BY <1>2, <1>3 DEF ProcessQueue

\* A step of a flow by itself.
LEMMA FlowMoves ==
    ASSUME TypeInv, FlowInv, NEW t \in Turners, NEW to, tpc' = [tpc EXCEPT ![t] = to],
           typed' = typed,
           \/ tpc[t] = "start" /\ to \in {"enter", "ended"}
           \/ tpc[t] = "enter" /\ to \in {"lock", "ended"}
           \/ tpc[t] \in TurnPcs /\ to \in TurnPcs \union (IF t = "main" THEN {"ended"} ELSE {"idle"})
           \/ t = "drain" /\ tpc[t] # "idle"
    PROVE  FlowInv'
<1>1. /\ tpc \in [Turners -> Pcs] /\ tpc["drain"] \in DrainPcs \union TurnPcs
      /\ tpc["main"] \in MainPcs \union TurnPcs
  BY DEF TypeInv, TurnInv, FlowOK
<1>2. CASE t = "main"
  BY <1>1, <1>2 DEF FlowInv, FlowsAt, MainPcs, DrainPcs, TurnPcs, Turners
<1>3. CASE t = "drain"
  BY <1>1, <1>3 DEF FlowInv, FlowsAt, MainPcs, DrainPcs, TurnPcs, Turners
<1> QED
  BY <1>2, <1>3 DEF Turners

LEMMA AskerAsks ==
    ASSUME NEW a, AskStep(a)
    PROVE  asks[a].pc # "none"
<1>1. CASE AskStamp(a) \/ AutoApprove(a)
  BY <1>1 DEF AskStamp, AutoApprove, AskMoves
<1>2. CASE AskWait(a)
  BY <1>2 DEF AskWait, AskMoves
<1>3. CASE AskIgnored(a) \/ AskTake(a)
  BY <1>3 DEF AskIgnored, AskTake
<1>4. CASE YoloAnswer(a)
  BY <1>4 DEF YoloAnswer
<1> QED
  BY <1>1, <1>2, <1>3, <1>4 DEF AskStep

LEMMA FlowStep ==
    ASSUME Patient, TypeInv, PlacesInv, CalmInv, Next, NoOutput
    PROVE  FlowInv'
<1>1. TurnInv /\ TurnInv' /\ tpc \in [Turners -> Pcs] /\ typed \in Nat
  BY TurnStepKeeps, MsgSeqs DEF TypeInv, TurnInv, FlowOK
<1>2. FlowInv /\ FlowsAt(tpc, typed) /\ (queue # <<>> => typed > 0)
  BY QueuedIsTyped DEF CalmInv, FlowInv
<1>3. ASSUME UNCHANGED <<tpc, typed>> PROVE FlowInv'
  BY <1>2, <1>3 DEF FlowInv, FlowsAt
<1>4. CASE User
  <2>1. ASSUME NEW m, Type(m) PROVE typed' = typed + 1 /\ FlowsAt(tpc, typed') /\ typed' > 0
    <3>1. typed' = typed + 1 /\ tpc["main"] \notin {"start", "enter"}
      BY <2>1 DEF Type, Patient
    <3> QED
      BY <1>1, <1>2, <3>1 DEF FlowsAt
  <2>2. ASSUME NEW m, UserQueues(m) PROVE FlowInv'
    <3>1. tpc' = tpc /\ Type(m)
      BY <2>2 DEF UserQueues, flowVars
    <3> QED
      BY <2>1, <3>1 DEF FlowInv
  <2>3. ASSUME NEW m, UserAnswers(m) \/ UserRejects(m) PROVE FlowInv'
    <3>1. \/ tpc' = tpc /\ Type(m)
          \/ UNCHANGED <<tpc, typed>>
          \/ Type(m) /\ count' = count /\ ProcessQueue(Append(queue, m), count, waiting, tpc)
      BY <2>3 DEF UserAnswers, UserRejects
    <3>2. CASE tpc' = tpc /\ Type(m)
      BY <2>1, <3>2 DEF FlowInv
    <3>3. CASE Type(m) /\ ProcessQueue(Append(queue, m), count', waiting, tpc)
      BY <1>1, <2>1, <3>3, ProcessFlows
    <3> QED
      BY <1>3, <3>1, <3>2, <3>3
  <2>4. ASSUME NEW i, UserRemoves(i) PROVE FlowInv'
    BY <1>3, <2>4 DEF UserRemoves, flowVars
  <2>5. CASE UserPicks \/ UserApproves \/ BridgeApproves \/ Abort
    BY <1>3, <2>5 DEF UserPicks, UserApproves, BridgeApproves, Approve, Abort, flowVars, histVars
  <2> QED
    BY <1>4, <2>2, <2>3, <2>4, <2>5 DEF User
<1>5. CASE StartTask \/ MainEnters
  <2>1. typed' = typed /\ \E to : /\ tpc' = [tpc EXCEPT !["main"] = to]
                                 /\ \/ tpc["main"] = "start" /\ to \in {"enter", "ended"}
                                    \/ tpc["main"] = "enter" /\ to \in {"lock", "ended"}
    BY <1>5 DEF StartTask, MainEnters, Moves, histVars
  <2> QED
    BY <1>2, <2>1, FlowMoves DEF Turners
<1>6. CASE ResumeAsk \/ ReadHistory \/ OverwriteHistory
  BY <1>2, <1>6 DEF ResumeAsk, ReadHistory, OverwriteHistory, FlowsAt, TurnPcs
<1>7. CASE DrainCheckpointed \/ DrainSends
  <2>1. typed' = typed /\ tpc["drain"] # "idle" /\ \E to : tpc' = [tpc EXCEPT !["drain"] = to]
    BY <1>7 DEF DrainCheckpointed, DrainSends, Moves, histVars
  <2> QED
    BY <1>2, <2>1, FlowMoves DEF Turners
<1>8. CASE CommandDies \/ \E o \in Outs : CommandOutput(o)
  BY <1>3, <1>8 DEF CommandDies, CommandOutput, flowVars, histVars
<1>9. CASE QueueTick
  <2>1. typed' = typed /\ ProcessQueue(queue, count', waiting, tpc)
    BY <1>9 DEF QueueTick
  <2> QED
    BY <1>1, <1>2, <2>1, ProcessFlows
<1>10. ASSUME NEW t \in Turners, TurnStep(t) PROVE FlowInv'
  <2>1. CASE TurnBegins(t) \/ RequestSent(t) \/ UseTool(t) \/ CommandReturns(t)
             \/ PresentationEnds(t) \/ NextRequest(t)
    <3>1. typed' = typed /\ tpc[t] \in TurnPcs /\ \E to \in TurnPcs : tpc' = [tpc EXCEPT ![t] = to]
      BY <2>1 DEF TurnBegins, RequestSent, UseTool, CommandReturns, PresentationEnds, NextRequest,
                  Moves, histVars, TurnPcs
    <3> QED
      BY <1>2, <3>1, FlowMoves
  <2>2. CASE StreamEnds(t)
    <3> DEFINE tp == [tpc EXCEPT ![t] = "tools"]
    <3>1. typed' = typed /\ tpc[t] = "streaming" /\ ProcessQueue(queue, count', waiting, tp)
      BY <2>2 DEF StreamEnds
    <3>2. tp \in [Turners -> Pcs] /\ FlowsAt(tp, typed')
      BY <1>1, <1>2, <3>1 DEF FlowsAt, Pcs, TurnPcs, Turners
    <3> HIDE DEF tp
    <3> QED
      BY <1>1, <1>2, <3>1, <3>2, ProcessFlows
  <2>3. CASE TurnEnds(t)
    <3> DEFINE tp == [tpc EXCEPT ![t] = IF t = "main" THEN "ended" ELSE "idle"]
    <3>1. typed' = typed /\ tpc[t] \in TurnPcs /\ ProcessQueue(queue, count', waiting, tp)
      BY <2>3 DEF TurnEnds, TurnIsOver, Unwinds, TurnPcs
    <3>2. tp \in [Turners -> Pcs] /\ FlowsAt(tp, typed')
      BY <1>1, <1>2, <3>1 DEF FlowsAt, Pcs, MainPcs, DrainPcs, TurnPcs, Turners
    <3> HIDE DEF tp
    <3> QED
      BY <1>1, <1>2, <3>1, <3>2, ProcessFlows
  <2> QED
    BY <1>10, <2>1, <2>2, <2>3 DEF TurnStep, EmptyReply, Patient
<1>11. ASSUME NEW a \in Askers, AskStep(a) PROVE FlowInv'
  <2>1. a \in Turners /\ tpc[a] = "asking"
    <3>1. asks[a].pc # "none"
      BY <1>11, AskerAsks
    <3>2. a \in Turners
      BY <3>1 DEF CalmInv, OneAskInv, Askers
    <3> QED
      BY <1>1, <1>2, <3>1, <3>2, OneAsks
  <2>2. a \notin Outs
    BY <2>1, TCAssumption
  <2>3. ASSUME NEW kind
        PROVE  /\ TpcAfter(a, kind) = [tpc EXCEPT ![a] = NextPc(a, kind)]
               /\ NextPc(a, kind) \in TurnPcs
    BY <2>1, <2>2 DEF TpcAfter, NextPc, TurnPcs
  <2>4. CASE AskStamp(a) \/ AutoApprove(a) \/ AskWait(a)
    BY <1>3, <2>4 DEF AskStamp, AutoApprove, AskWait, flowVars, histVars
  <2>5. CASE AskIgnored(a) \/ YoloAnswer(a)
    <3>1. typed' = typed /\ \E kind : tpc' = TpcAfter(a, kind)
      BY <2>5 DEF AskIgnored, YoloAnswer, histVars
    <3>2. tpc[a] \in TurnPcs
      BY <2>1 DEF TurnPcs
    <3> QED
      BY <1>2, <2>1, <2>3, <3>1, <3>2, FlowMoves
  <2>6. CASE AskTake(a)
    <3> DEFINE tp == TpcAfter(a, response.kind)
    <3>1. typed' = typed /\ ProcessQueue(queue, count', FALSE, tp)
      BY <2>6 DEF AskTake
    <3>2. tp \in [Turners -> Pcs] /\ FlowsAt(tp, typed')
      BY <1>1, <1>2, <2>1, <2>3, <3>1 DEF FlowsAt, Pcs, TurnPcs, Turners
    <3> HIDE DEF tp
    <3> QED
      BY <1>1, <1>2, <3>1, <3>2, ProcessFlows
  <2> QED
    BY <1>11, <2>4, <2>5, <2>6 DEF AskStep
<1> QED
  BY <1>4, <1>5, <1>6, <1>7, <1>8, <1>9, <1>10, <1>11 DEF Next, Task

LEMMA OneAskStep ==
    ASSUME Patient, TypeInv, CalmInv, Next, NoOutput
    PROVE  OneAskInv'
<1>1. TurnInv /\ FlowInv /\ OneAskInv /\ AskOK /\ asks \in [Askers -> [pc : {"none", "stamp", "add", "shown", "wait"}, type : AllAskTypes]]
  BY DEF TypeInv, TurnInv, CalmInv, AskOK
<1>2. /\ Turners \subseteq Askers /\ Outs \subseteq Askers /\ \A t \in Turners : t \notin Outs
      /\ \A a \in Askers : a # NoRow
  BY AskerSets, TCAssumption DEF Askers, Turners, NoRow
<1>3. response.kind = "none" => response.msg = NoMsg
  BY <1>1 DEF OneAskInv, HasResponse
\* Nobody asks, before and after: nothing but the row can change.
<1>4. ASSUME \A t \in Turners : asks[t].pc = "none", asks' = asks, waiting' = waiting,
             response' \in {response, NoResponse}
      PROVE  OneAskInv'
  BY <1>1, <1>4 DEF OneAskInv, NoResponse, HasResponse
<1>5. ASSUME UNCHANGED <<asks, waiting, live>>,
             response' = response \/ response'.msg = NoMsg \/ (waiting /\ response'.kind # "none")
      PROVE  OneAskInv'
  BY <1>1, <1>5 DEF OneAskInv, HasResponse
\* The only asker a goes on or is through.
<1>6. ASSUME NEW a \in Turners, asks[a].pc # "none", NEW r, asks' = [asks EXCEPT ![a] = r],
             r.pc \in {"add", "shown", "wait"} => live' = a,
             r.pc = "wait" \/ waiting' = FALSE,
             response'.msg # NoMsg => waiting' /\ response'.kind # "none"
      PROVE  OneAskInv'
  <2>1. \A u \in Turners \ {a} : asks[u].pc = "none"
    BY <1>1, <1>6, OneAsks
  <2>2. asks'[a] = r /\ \A u \in Askers \ {a} : asks'[u] = asks[u]
    BY <1>1, <1>2, <1>6
  <2> QED
    BY <1>1, <1>2, <1>6, <2>1, <2>2 DEF OneAskInv, HasResponse
<1>7. CASE User
  <2>1. ASSUME NEW m, UserQueues(m) PROVE OneAskInv'
    BY <1>5, <2>1 DEF UserQueues, ProcessQueuedMessages, CanDispatch, Respond, AnswerTo
  <2>2. ASSUME NEW m, UserAnswers(m) PROVE OneAskInv'
    BY <1>5, <2>2 DEF UserAnswers, Respond, AnswerTo
  <2>3. ASSUME NEW m, UserRejects(m) PROVE OneAskInv'
    BY <1>5, <2>3 DEF UserRejects, Respond, AnswerTo
  <2>4. CASE UserPicks \/ UserApproves \/ BridgeApproves
    BY <1>5, <2>4 DEF UserPicks, UserApproves, BridgeApproves, Approve, Respond, AnswerTo
  <2>5. ASSUME NEW i, UserRemoves(i) PROVE OneAskInv'
    BY <1>5, <2>5 DEF UserRemoves, askVars
  <2>6. CASE Abort
    BY <1>5, <2>6 DEF Abort, askVars
  <2> QED
    BY <1>7, <2>1, <2>2, <2>3, <2>4, <2>5, <2>6 DEF User
<1>8. CASE StartTask \/ DrainCheckpointed
  <2>1. \E t \in Turners : tpc[t] \in {"start", "checkpoint"}
    BY <1>8 DEF StartTask, DrainCheckpointed, Turners
  <2>2. \A t \in Turners : asks[t].pc = "none"
    BY <1>1, <2>1, NobodyAsks
  <2> QED
    BY <1>4, <1>8, <2>2 DEF StartTask, DrainCheckpointed
<1>9. CASE ResumeAsk
  BY <1>1, <1>9 DEF ResumeAsk, FlowInv, FlowsAt, TurnPcs
<1>10. CASE ReadHistory \/ OverwriteHistory \/ MainEnters \/ DrainSends \/ CommandDies \/ QueueTick
  BY <1>5, <1>10 DEF ReadHistory, OverwriteHistory, MainEnters, DrainSends, CommandDies, QueueTick, askVars
<1>11. ASSUME NEW o \in Outs, CommandOutput(o) PROVE FALSE
  <2>1. asks'[o].pc = "stamp"
    BY <1>1, <1>2, <1>11 DEF CommandOutput, BeginAsk
  <2> QED
    BY <2>1 DEF NoOutput, NoAsk
<1>12. ASSUME NEW t \in Turners, TurnStep(t) PROVE OneAskInv'
  <2>1. CASE TurnBegins(t) \/ NextRequest(t)
    <3>1. \A u \in Turners : asks[u].pc = "none"
      BY <1>1, <2>1, NobodyAsks DEF TurnBegins, NextRequest, TurnPcs
    <3> QED
      BY <1>4, <2>1, <3>1 DEF TurnBegins, NextRequest
  <2>2. CASE RequestSent(t) \/ StreamEnds(t) \/ CommandReturns(t) \/ PresentationEnds(t) \/ TurnEnds(t)
    BY <1>5, <2>2 DEF RequestSent, StreamEnds, CommandReturns, PresentationEnds, TurnEnds, askVars
  <2>3. CASE UseTool(t)
    <3>1. \A u \in Turners : asks[u].pc = "none"
      BY <1>1, <2>3, NobodyAsks DEF UseTool, TurnPcs
    <3>2. PICK type : /\ asks' = [asks EXCEPT ![t] = [pc |-> "stamp", type |-> type]]
                      /\ response' = NoResponse
      BY <2>3 DEF UseTool, BeginAsk
    <3>3. waiting' = waiting /\ waiting = FALSE /\ asks'[t].pc = "stamp"
          /\ \A u \in Askers \ {t} : asks'[u] = asks[u]
      BY <1>1, <1>2, <2>3, <3>1, <3>2 DEF UseTool, OneAskInv, TypeInv, AnswerOK
    <3> QED
      BY <1>1, <1>2, <3>1, <3>2, <3>3 DEF OneAskInv, NoResponse
  <2> QED
    BY <1>12, <2>1, <2>2, <2>3 DEF TurnStep, EmptyReply, Patient
<1>13. ASSUME NEW a \in Askers, AskStep(a) PROVE OneAskInv'
  <2>1. asks[a].pc # "none"
    BY <1>13, AskerAsks
  <2>2. a \in Turners /\ asks[a] \in [pc : {"none", "stamp", "add", "shown", "wait"}, type : AllAskTypes]
    BY <1>1, <2>1 DEF OneAskInv, Askers
  <2>3. \A u \in Turners \ {a} : asks[u].pc = "none"
    BY <1>1, <2>1, <2>2, OneAsks
  <2>4. asks[a].pc # "wait" => waiting = FALSE /\ response.msg = NoMsg
    BY <1>1, <2>2, <2>3 DEF OneAskInv, TypeInv, AnswerOK
  <2>5. asks[a].pc \in {"add", "shown", "wait"} => live = a
    BY <1>1, <2>2 DEF OneAskInv
  <2>6. ASSUME NEW p \in {"add", "shown", "wait"}
        PROVE  \E r : r.pc = p /\ [asks EXCEPT ![a].pc = p] = [asks EXCEPT ![a] = r]
    <3>1. [asks EXCEPT ![a].pc = p] = [asks EXCEPT ![a] = [asks[a] EXCEPT !.pc = p]]
          /\ [asks[a] EXCEPT !.pc = p].pc = p
      BY <1>1, <2>2
    <3> QED
      BY <3>1
  <2>7. CASE AskStamp(a)
    <3>1. asks' = [asks EXCEPT ![a].pc = "add"] /\ live' = a /\ waiting' = FALSE
          /\ response'.msg = NoMsg
      BY <2>4, <2>7 DEF AskStamp, AskMoves
    <3> QED
      BY <1>6, <2>1, <2>2, <2>6, <3>1
  <2>8. CASE AutoApprove(a)
    <3>1. asks' = [asks EXCEPT ![a].pc = "shown"] /\ live' = a /\ waiting' = FALSE
          /\ response'.msg = NoMsg
      BY <2>4, <2>5, <2>8 DEF AutoApprove, AskMoves, Respond, AnswerTo
    <3> QED
      BY <1>6, <2>1, <2>2, <2>6, <3>1
  <2>9. CASE AskWait(a)
    <3>1. asks' = [asks EXCEPT ![a].pc = "wait"] /\ live' = a /\ waiting' = TRUE
          /\ (response'.msg = NoMsg \/ response'.kind = "message")
      BY <2>4, <2>5, <2>9 DEF AskWait, AskMoves, Respond, AnswerTo
    <3> QED
      BY <1>6, <2>1, <2>2, <2>6, <3>1
  <2>10. CASE AskIgnored(a)
    BY <2>5, <2>10 DEF AskIgnored
  <2>11. CASE AskTake(a) \/ YoloAnswer(a)
    <3>1. asks' = [asks EXCEPT ![a] = NoAsk] /\ waiting' = FALSE /\ response' = NoResponse
      <4>1. YoloAnswer(a) => asks[a].pc = "add"
        BY DEF YoloAnswer
      <4> QED
        BY <2>4, <2>11, <4>1 DEF AskTake, YoloAnswer
    <3>2. NoAsk.pc = "none" /\ NoResponse.msg = NoMsg
      BY DEF NoAsk, NoResponse
    <3> QED
      BY <1>6, <2>1, <2>2, <3>1, <3>2
  <2> QED
    BY <1>13, <2>7, <2>8, <2>9, <2>10, <2>11 DEF AskStep
<1> QED
  BY <1>7, <1>8, <1>9, <1>10, <1>11, <1>12, <1>13 DEF Next, Task

\* Whoever looks at the queue takes its head in hand, and leaves what it held.
LEMMA ProcessKeeps ==
    ASSUME dispatched \in Seq(Msgs), NEW q \in Seq(Msgs), Once(q), NEW n, NEW w,
           NEW tp \in [Turners -> Pcs], ProcessQueue(q, n, w, tp), NEW m
    PROVE  /\ m \in Items(q) => m \in Items(queue') \/ Held(m)'
           /\ held = m /\ tp["drain"] \in CarryPcs => Held(m)'
<1>1. CASE /\ tp["drain"] = "idle" /\ q # <<>> /\ Dequeue(q)
           /\ held' = dispatched'[Len(dispatched')] /\ tpc' = [tp EXCEPT !["drain"] = "checkpoint"]
  <2>1. q \in Seq(Nat) /\ queue' = Tail(q) /\ held' = Head(q)
    BY <1>1, DequeueTypes, MsgsSeqsAreNat DEF Dequeue
  <2>2. Items(queue') = Items(q) \ {Head(q)}
    BY <1>1, <2>1, ItemsTail
  <2>3. tpc'["drain"] = "checkpoint"
    BY <1>1 DEF Turners
  <2>4. Held(Head(q))'
    BY <2>1, <2>3 DEF Held
  <2> QED
    BY <1>1, <2>1, <2>2, <2>3 DEF Held, CarryPcs
<1>2. CASE queue' = q /\ tpc' = tp /\ held' = held
  BY <1>2 DEF Held, CarryPcs
<1> QED
  BY <1>1, <1>2 DEF ProcessQueue

\* Removing an item leaves the others.
LEMMA ItemsLeft ==
    ASSUME NEW s \in Seq(Nat), NEW k \in DOMAIN s
    PROVE  Items(s) \subseteq Items(Without(s, k)) \union {s[k]}
<1>1. /\ k \in 1 .. Len(s) /\ Len(s) \in Nat /\ DOMAIN s = 1 .. Len(s)
      /\ DOMAIN Without(s, k) = 1 .. Len(s) - 1
  BY RemoveItem
<1>2. \A i \in DOMAIN Without(s, k) :
         /\ i < k => Without(s, k)[i] = s[i]
         /\ ~(i < k) => Without(s, k)[i] = s[i + 1]
  BY RemoveItem
<1> DEFINE r == Without(s, k)
<1> HIDE DEF r
<1>3. ASSUME NEW i \in DOMAIN s, i # k PROVE \E j \in DOMAIN r : r[j] = s[i]
  <2>1. CASE i < k
    <3>1. i \in DOMAIN r /\ r[i] = s[i]
      BY <1>1, <1>2, <2>1 DEF r
    <3> QED
      BY <3>1
  <2>2. CASE i > k
    <3>1. i - 1 \in DOMAIN r /\ ~(i - 1 < k) /\ i - 1 + 1 = i
      BY <1>1, <2>2 DEF r
    <3>2. r[i - 1] = s[i]
      BY <1>2, <3>1 DEF r
    <3> QED
      BY <3>1, <3>2
  <2> QED
    BY <1>1, <1>3, <2>1, <2>2
<1> QED
  BY <1>3 DEF Items, r

LEMMA DropStep ==
    ASSUME Patient, TypeInv, OrderInv, PlacesInv, CalmInv, Next, NoOutput
    PROVE  NothingDropped'
<1> SUFFICES ASSUME ~aborted', NEW m \in 1 .. typed' PROVE Kept(m)'
  BY DEF NothingDropped, Kept
<1>1. /\ queue \in Seq(Nat) /\ queue \in Seq(Msgs) /\ dispatched \in Seq(Msgs)
      /\ typed \in Nat /\ Once(queue) /\ tpc \in [Turners -> Pcs]
  BY MsgSeqs, OrderedOnce DEF TypeInv, TurnInv, FlowOK, QueueOK, OrderInv
<1>2. TurnInv /\ FlowInv /\ OneAskInv /\ DrainInv
  BY DEF TypeInv, CalmInv, PlacesInv
<1>3. response.kind = "none" => response.msg = NoMsg
  BY <1>2 DEF OneAskInv, HasResponse
<1>4. m \in Nat /\ m # NoMsg
  BY DEF NoMsg
<1>5. ASSUME ~aborted, typed' = typed PROVE Kept(m)
  BY <1>5 DEF CalmInv, NothingDropped, Kept
\* What was typed before is where it was.
<1>6. ASSUME ~aborted, UNCHANGED <<typed, held>>, Items(queue) \subseteq Items(queue') \union removed',
             tpc["drain"] \in CarryPcs => tpc'["drain"] \in CarryPcs,
             response.msg \in {response'.msg, NoMsg} \union taken', taken \subseteq taken',
             history' = history, removed \subseteq removed'
      PROVE  Kept(m)'
  BY <1>4, <1>5, <1>6 DEF Kept, Held, CarryPcs
<1>7. ASSUME ~aborted, typed' = typed, NEW n, NEW w, NEW tp \in [Turners -> Pcs],
             ProcessQueue(queue, n, w, tp), tpc["drain"] \in CarryPcs => tp["drain"] \in CarryPcs,
             response.msg \in {response'.msg, NoMsg} \union taken', taken \subseteq taken',
             UNCHANGED <<history, removed>>
      PROVE  Kept(m)'
  <2>1. /\ m \in Items(queue) => m \in Items(queue') \/ Held(m)'
        /\ Held(m) => Held(m)'
    BY <1>1, <1>7, ProcessKeeps DEF Held, CarryPcs
  <2> QED
    BY <1>4, <1>5, <1>7, <2>1 DEF Kept
<1>8. CASE User
  <2> DEFINE k == typed + 1
             q == Append(queue, k)
  <2>1. /\ k \in Nat /\ q \in Seq(Nat) /\ q # <<>> /\ Items(q) = Items(queue) \union {k}
        /\ Once(q)
    <3>1. k \in Nat /\ q \in Seq(Nat) /\ q # <<>>
      BY <1>1
    <3>2. Items(q) = Items(queue) \union {k}
      BY <1>1, <3>1, ItemsAppend
    <3>3. Ordered(dispatched, q, k)
      BY <1>1, MsgSeqs, OrderAppend DEF OrderInv
    <3> HIDE DEF k, q
    <3>4. Once(q)
      BY <3>1, <3>3, OrderedOnce
    <3> QED
      BY <3>1, <3>2, <3>4
  <2>2. k \in Msgs => q \in Seq(Msgs)
    BY <1>1
  <2>3. ASSUME typed' = k, ~aborted, m # k PROVE Kept(m)
    <3>1. m \in 1 .. typed
      BY <1>1, <2>3
    <3> QED
      BY <2>3, <3>1 DEF CalmInv, NothingDropped, Kept
  <2> HIDE DEF k, q
  <2>4. ASSUME NEW x \in Msgs, UserQueues(x) PROVE Kept(m)'
    <3>1. /\ typed' = k /\ k \in Msgs /\ ProcessQueuedMessages(q) /\ ~aborted
          /\ UNCHANGED <<held, tpc, taken, history, removed>>
      BY <2>4 DEF UserQueues, Type, flowVars, dataVars, k, q
    <3>2. m = k => m \in Items(q)
      BY <2>1
    <3>3. CASE CanDispatch(q) /\ Dequeue(q) /\ Respond("message", Head(q))
      <4>1. Items(queue') = Items(q) \ {Head(q)} /\ response'.msg = Head(q)
        BY <2>1, <3>3, ItemsTail DEF Dequeue, Respond, AnswerTo
      <4>2. response.msg = NoMsg
        BY <1>2, <3>3 DEF CanDispatch, OneAskInv
      <4>3. m # k => Kept(m)
        BY <2>3, <3>1
      <4> QED
        BY <1>4, <2>1, <3>1, <3>2, <4>1, <4>2, <4>3 DEF Kept, Held
    <3>4. CASE queue' = q /\ response' = response
      <4>1. m # k => Kept(m)
        BY <2>3, <3>1
      <4> QED
        BY <1>4, <2>1, <3>1, <3>2, <3>4, <4>1 DEF Kept, Held
    <3> QED
      BY <3>1, <3>3, <3>4 DEF ProcessQueuedMessages
  <2>5. ASSUME NEW x \in Msgs, UserAnswers(x) PROVE Kept(m)'
    <3>1. typed' = k /\ k \in Msgs /\ x = k /\ ~aborted /\ UNCHANGED <<taken, history, removed>>
      BY <2>5 DEF UserAnswers, Type, dataVars, k
    <3>2. m # k => Kept(m)
      BY <2>3, <3>1
    <3>3. CASE waiting /\ Respond("message", k) /\ UNCHANGED <<queue, held, tpc>>
      <4>1. response'.msg = k
        BY <3>3 DEF Respond, AnswerTo
      <4>2. MayWrite => ~waiting
        BY <1>2, TCAssumption DEF MayWrite, OneAskInv, Turners, NoRow
      <4>3. response.msg = NoMsg
        BY <1>2, <2>5, <3>3, <4>2 DEF UserAnswers, MayAnswer, OneAskInv, Patient
      <4> QED
        BY <1>4, <3>1, <3>2, <3>3, <4>1, <4>3 DEF Kept, Held
    <3>4. CASE ProcessQueue(q, count, waiting, tpc) /\ response' = response
      <4>1. /\ m \in Items(q) => m \in Items(queue') \/ Held(m)'
            /\ Held(m) => Held(m)'
        BY <1>1, <2>1, <2>2, <3>1, <3>4, ProcessKeeps DEF Held, CarryPcs
      <4> QED
        BY <2>1, <3>1, <3>2, <3>4, <4>1 DEF Kept
    <3> QED
      BY <2>5, <3>1, <3>3, <3>4 DEF UserAnswers, k, q
  <2>6. ASSUME NEW x \in Msgs \union {NoMsg}, UserRejects(x) PROVE Kept(m)'
    <3>1. /\ response'.msg = NoMsg /\ ~aborted /\ response.msg = NoMsg
          /\ UNCHANGED <<taken, history, removed>>
      BY <1>2, <2>6 DEF UserRejects, dataVars, Respond, AnswerTo, MayAnswer, OneAskInv, Patient
    <3>2. CASE UNCHANGED <<queue, held, tpc, typed>>
      BY <1>6, <3>1, <3>2
    <3>3. CASE Type(x) /\ ProcessQueue(Append(queue, x), count, waiting, tpc)
      <4>1. typed' = k /\ k \in Msgs /\ ProcessQueue(q, count, waiting, tpc)
        BY <1>1, <3>3 DEF Type, NoMsg, k, q, Msgs
      <4>2. m # k => Kept(m)
        BY <2>3, <3>1, <4>1
      <4>3. /\ m \in Items(q) => m \in Items(queue') \/ Held(m)'
            /\ Held(m) => Held(m)'
        BY <1>1, <2>1, <2>2, <4>1, ProcessKeeps DEF Held, CarryPcs
      <4> QED
        BY <1>4, <2>1, <3>1, <4>2, <4>3 DEF Kept
    <3> QED
      BY <2>6, <3>2, <3>3 DEF UserRejects
  <2>7. ASSUME NEW i, UserRemoves(i) PROVE Kept(m)'
    <3>1. /\ i \in DOMAIN queue /\ queue' = Without(queue, i) /\ removed' = removed \union {queue[i]}
          /\ ~aborted /\ UNCHANGED <<held, taken, typed, response, tpc, history>>
      BY <2>7 DEF UserRemoves, Without, askVars, flowVars, dataVars
    <3>2. Items(queue) \subseteq Items(queue') \union {queue[i]}
      BY <1>1, <3>1, ItemsLeft
    <3> QED
      BY <1>6, <3>1, <3>2
  <2>8. CASE UserPicks \/ UserApproves \/ BridgeApproves
    <3>1. /\ response.msg = NoMsg /\ ~aborted
          /\ UNCHANGED <<held, taken, typed, queue, tpc, history, removed>>
      BY <1>2, <2>8 DEF UserPicks, UserApproves, BridgeApproves, Approve, MayAnswer, OneAskInv,
                  Patient, queueVars, flowVars, dataVars, histVars
    <3> QED
      BY <1>6, <3>1
  <2>9. CASE Abort
    BY <2>9 DEF Abort
  <2> QED
    BY <1>8, <2>4, <2>5, <2>6, <2>7, <2>8, <2>9 DEF User
<1>9. CASE \/ StartTask \/ MainEnters \/ DrainCheckpointed \/ DrainSends \/ CommandDies
  <2>1. ~aborted /\ UNCHANGED <<held, taken, typed, queue, response, history, removed>>
    BY <1>9 DEF StartTask, MainEnters, CommandDies, DrainCheckpointed, DrainSends, queueVars,
                dataVars, histVars, askVars
  <2>2. tpc["drain"] \in CarryPcs => tpc'["drain"] \in CarryPcs
    BY <1>1, <1>9 DEF StartTask, MainEnters, CommandDies, DrainCheckpointed, DrainSends, Moves,
                flowVars, CarryPcs, Turners
  <2> QED
    BY <1>6, <2>1, <2>2
<1>10. CASE \/ ResumeAsk \/ ReadHistory \/ OverwriteHistory \/ \E o \in Outs : CommandOutput(o)
  <2>1. ASSUME NEW o \in Outs, CommandOutput(o) PROVE FALSE
    <3>1. asks'[o].pc = "stamp" /\ o \in Askers
      BY <1>2, <2>1, AskerSets DEF CommandOutput, BeginAsk, TurnInv, AskOK
    <3> QED
      BY <2>1, <3>1 DEF NoOutput, NoAsk
  <2> QED
    BY <1>2, <1>10, <2>1 DEF ResumeAsk, ReadHistory, OverwriteHistory, FlowInv, FlowsAt, TurnPcs
<1>11. CASE QueueTick
  <2>1. ~aborted /\ typed' = typed /\ ProcessQueue(queue, count, waiting, tpc)
        /\ UNCHANGED <<response, taken, history, removed>>
    BY <1>11 DEF QueueTick, askVars, dataVars
  <2> QED
    BY <1>1, <1>7, <2>1
<1>12. ASSUME NEW t \in Turners, TurnStep(t) PROVE Kept(m)'
  <2>1. CASE TurnBegins(t) \/ CommandReturns(t) \/ PresentationEnds(t) \/ NextRequest(t) \/ UseTool(t)
    <3>1. ~aborted /\ UNCHANGED <<held, taken, typed, queue, history, removed>>
      BY <2>1 DEF TurnBegins, UseTool, CommandReturns, PresentationEnds, NextRequest, queueVars,
                  dataVars, histVars
    <3>2. response' = response \/ response.msg = NoMsg
      <4>1. CASE UseTool(t)
        <5>1. \A u \in Turners : asks[u].pc = "none"
          BY <1>2, <4>1, NobodyAsks DEF UseTool, TurnPcs
        <5> QED
          BY <1>2, <5>1 DEF OneAskInv
      <4> QED
        BY <2>1, <4>1 DEF TurnBegins, CommandReturns, PresentationEnds, NextRequest, askVars
    <3>3. tpc["drain"] \in CarryPcs => tpc'["drain"] \in CarryPcs
      BY <1>1, <2>1 DEF TurnBegins, UseTool, CommandReturns, PresentationEnds, NextRequest, Moves,
                  CarryPcs, Turners
    <3> QED
      BY <1>6, <3>1, <3>2, <3>3
  <2>2. CASE StreamEnds(t)
    <3> DEFINE tp == [tpc EXCEPT ![t] = "tools"]
    <3>1. ~aborted /\ typed' = typed /\ tpc[t] = "streaming" /\ ProcessQueue(queue, count, waiting, tp)
          /\ UNCHANGED <<response, taken, history, removed>>
      BY <2>2 DEF StreamEnds, askVars, dataVars
    <3>2. tp \in [Turners -> Pcs] /\ (tpc["drain"] \in CarryPcs => tp["drain"] \in CarryPcs)
      BY <1>1, <3>1 DEF Pcs, CarryPcs, TurnPcs, Turners
    <3> HIDE DEF tp
    <3> QED
      BY <1>7, <3>1, <3>2
  <2>3. CASE TurnEnds(t)
    <3> DEFINE tp == [tpc EXCEPT ![t] = IF t = "main" THEN "ended" ELSE "idle"]
    <3>1. ~aborted /\ typed' = typed /\ tpc[t] = "await" /\ ProcessQueue(queue, count - 1, waiting, tp)
          /\ UNCHANGED <<response, taken, history, removed>>
      BY <2>3 DEF TurnEnds, TurnIsOver, Unwinds, askVars, dataVars
    <3>2. tp \in [Turners -> Pcs] /\ (tpc["drain"] \in CarryPcs => tp["drain"] \in CarryPcs)
      BY <1>1, <3>1 DEF Pcs, MainPcs, DrainPcs, CarryPcs, TurnPcs, Turners
    <3> HIDE DEF tp
    <3> QED
      BY <1>7, <3>1, <3>2
  <2>4. CASE RequestSent(t)
    <3>1. /\ ~aborted /\ tpc[t] = "prepare" /\ tpc' = [tpc EXCEPT ![t] = "streaming"]
          /\ UNCHANGED <<queue, response, taken, typed, removed>>
      BY <2>4 DEF RequestSent, Moves, askVars, histVars
    <3>2. CASE t = "drain" /\ held # NoMsg
      <4>1. history' = Append(history, held)
        BY <2>4, <3>2 DEF RequestSent
      <4>2. history \in Seq(Nat) /\ held \in Nat
        BY <3>2, MsgsSeqsAreNat DEF TypeInv, RestOK, QueueOK, Msgs
      <4>3. Items(history') = Items(history) \union {held}
        BY <4>1, <4>2, ItemsAppend
      <4> QED
        BY <1>5, <3>1, <4>3 DEF Kept, Held
    <3>3. CASE t = "drain" /\ held = NoMsg
      <4>1. history' = history
        BY <2>4, <3>3 DEF RequestSent
      <4> QED
        BY <1>4, <1>5, <3>1, <3>3, <4>1 DEF Kept, Held
    <3>4. CASE t = "main"
      <4>1. history' = history /\ held' = held /\ tpc'["drain"] = tpc["drain"]
        BY <1>1, <2>4, <3>1, <3>4 DEF RequestSent, Turners
      <4> QED
        BY <1>6, <3>1, <4>1
    <3> QED
      BY <3>2, <3>3, <3>4 DEF Turners
  <2> QED
    BY <1>12, <2>1, <2>2, <2>3, <2>4 DEF TurnStep, EmptyReply, Patient
<1>13. ASSUME NEW a \in Askers, AskStep(a) PROVE Kept(m)'
  <2>1. asks[a].pc # "none"
    BY <1>13, AskerAsks
  <2>2. a \in Turners /\ a \notin Outs
    BY <1>2, <2>1, TCAssumption DEF OneAskInv, Askers
  <2>3. tpc[a] = "asking" /\ \A u \in Turners \ {a} : asks[u].pc = "none"
    BY <1>2, <2>1, <2>2, OneAsks
  <2>4. asks[a].pc # "wait" => response.msg = NoMsg
    BY <1>2, <2>2, <2>3 DEF OneAskInv
  <2>5. asks[a].pc \in {"add", "shown", "wait"} => live = a
    BY <1>2, <2>2 DEF OneAskInv
  <2>6. ASSUME NEW kind
        PROVE  /\ TpcAfter(a, kind) \in [Turners -> Pcs]
               /\ tpc["drain"] \in CarryPcs => TpcAfter(a, kind)["drain"] \in CarryPcs
    <3>1. TpcAfter(a, kind) = [tpc EXCEPT ![a] = NextPc(a, kind)] /\ NextPc(a, kind) \in Pcs
      BY <2>2, <2>3 DEF TpcAfter, NextPc, Pcs, TurnPcs
    <3> QED
      BY <1>1, <2>2, <2>3, <3>1 DEF CarryPcs, Turners
  <2>7. CASE AskStamp(a) \/ AutoApprove(a)
    <3>1. /\ ~aborted /\ response.msg \in {response'.msg, NoMsg}
          /\ UNCHANGED <<held, taken, typed, queue, tpc, history, removed>>
      <4>1. AutoApprove(a) => asks[a].pc = "add"
        BY DEF AutoApprove, AskMoves
      <4> QED
        BY <2>4, <2>7, <4>1 DEF AskStamp, AutoApprove, queueVars, flowVars, dataVars, histVars
    <3> QED
      BY <1>6, <3>1
  <2>8. CASE AskWait(a)
    <3>1. ~aborted /\ UNCHANGED <<held, tpc, taken, typed, history, removed>>
      BY <2>8 DEF AskWait, flowVars, dataVars
    <3>2. asks[a].pc # "wait"
      BY <2>8 DEF AskWait, AskMoves
    <3>3. CASE queue # <<>> /\ Dequeue(queue) /\ Respond("message", Head(queue))
      <4>1. Items(queue') = Items(queue) \ {Head(queue)} /\ response'.msg = Head(queue)
        BY <1>1, <3>3, ItemsTail DEF Dequeue, Respond, AnswerTo
      <4> QED
        BY <1>4, <1>5, <2>4, <3>1, <3>2, <4>1 DEF Kept, Held
    <3>4. CASE queue' = queue /\ response' = response
      BY <1>6, <3>1, <3>4
    <3> QED
      BY <2>8, <3>3, <3>4 DEF AskWait
  <2>9. CASE AskIgnored(a)
    BY <2>5, <2>9 DEF AskIgnored
  <2>10. CASE YoloAnswer(a)
    <3>1. /\ ~aborted /\ asks[a].pc = "add" /\ tpc' = TpcAfter(a, "message")
          /\ UNCHANGED <<held, taken, typed, queue, history, removed>>
      BY <2>10 DEF YoloAnswer, queueVars, dataVars, histVars
    <3> QED
      BY <1>6, <2>4, <2>6, <3>1
  <2>11. CASE AskTake(a)
    <3> DEFINE tp == TpcAfter(a, response.kind)
    <3>1. /\ ~aborted /\ ProcessQueue(queue, count, FALSE, tp)
          /\ taken' = (taken \union {response.msg}) \ {NoMsg}
          /\ UNCHANGED <<typed, history, removed>>
      BY <2>11 DEF AskTake, dataVars
    <3>2. tp \in [Turners -> Pcs] /\ (tpc["drain"] \in CarryPcs => tp["drain"] \in CarryPcs)
      BY <2>6
    <3>3. response.msg \in {NoMsg} \union taken' /\ taken \subseteq taken'
      BY <3>1, MsgsAreNat DEF TypeInv, RestOK
    <3> HIDE DEF tp
    <3> QED
      BY <1>7, <3>1, <3>2, <3>3
  <2> QED
    BY <1>13, <2>7, <2>8, <2>9, <2>10, <2>11 DEF AskStep
<1> QED
  BY <1>8, <1>9, <1>10, <1>11, <1>12, <1>13 DEF Next, Task

LEMMA CalmInit == Patient /\ Init => CalmInv
<1> SUFFICES ASSUME Patient, Init PROVE CalmInv
  OBVIOUS
<1>1. Restored = 0 /\ typed = 0
  BY TCAssumption DEF Patient, Init
<1>2. FlowInv
  BY <1>1 DEF Patient, Init, FlowInv, FlowsAt
<1>3. OneAskInv
  BY DEF Init, OneAskInv, Askers, NoAsk, NoResponse
<1>4. NothingDropped
  BY <1>1 DEF NothingDropped
<1> QED
  BY <1>2, <1>3, <1>4 DEF CalmInv

\* What the proof carries along a behaviour of the new task.
CalmTask == TypeInv /\ OrderInv /\ PlacesInv /\ CalmInv

LEMMA CalmStutters == CalmTask /\ UNCHANGED vars => CalmInv'
<1> SUFFICES ASSUME CalmTask, UNCHANGED vars PROVE CalmInv'
  OBVIOUS
<1>1. UNCHANGED <<tpc, asks, live, waiting, response, aborted, typed, queue, held, taken, history, removed>>
  BY DEF vars, queueVars, askVars, flowVars, dataVars, histVars
<1>2. FlowInv'
  BY <1>1 DEF CalmTask, CalmInv, FlowInv, FlowsAt
<1>3. OneAskInv'
  BY <1>1 DEF CalmTask, CalmInv, OneAskInv, HasResponse
<1>4. NothingDropped'
  BY <1>1 DEF CalmTask, CalmInv, NothingDropped, Held, Items
<1> QED
  BY <1>2, <1>3, <1>4 DEF CalmInv

\* No message of a new task's user is lost between the queue, the answer, the turn
\* it starts and the saved history, if the user waits for the first turn and
\* answers each ask once, and no reply is empty.
THEOREM PatientUsersKeepMessages ==
    ASSUME Patient
    PROVE  MCSpec => []CalmNothingDropped
<1> DEFINE J == ~races => CalmTask
<1>1. MCInit => J
  BY CalmInit, TypeInit, OrderInit, PlacesInit DEF MCInit, CalmTask
<1>2. J /\ [MCNext]_<<vars, races>> => J'
  <2> SUFFICES ASSUME CalmTask, ~races, ~races', [MCNext]_<<vars, races>> PROVE CalmTask'
    BY DEF MCNext
  <2>1. [Next]_vars
    BY DEF MCNext
  <2>2. TypeInv' /\ OrderInv' /\ PlacesInv'
    BY <2>1, TypeStep, OrderStep, PlacesStep DEF CalmTask
  <2>3. CASE Next /\ NoOutput
    BY <2>2, <2>3, FlowStep, OneAskStep, DropStep DEF CalmTask, CalmInv
  <2>4. CASE UNCHANGED vars
    BY <2>2, <2>4, CalmStutters DEF CalmTask
  <2> QED
    BY <2>3, <2>4 DEF MCNext
<1>3. J => CalmNothingDropped
  BY DEF CalmTask, CalmInv, CalmNothingDropped
<1>4. MCSpec => MCInit /\ [][MCNext]_<<vars, races>>
  BY PTL DEF MCSpec
<1> HIDE DEF J
<1> QED
  BY <1>1, <1>2, <1>3, <1>4, PTL
=============================================================================
