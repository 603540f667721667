------------------------- MODULE TaskInstancesProofs -------------------------
(***************************************************************************)
(* Proofs about a task whose instance is replaced, for any messages,       *)
(* operations, instances and bounds: what becomes of its queued messages   *)
(* (TaskReplacement), and of its history file (TaskPersistence).           *)
(***************************************************************************)
EXTENDS MCTaskServices, TerminalsProofs, TLAPS

----------------------------------------------------------------------------
(* Queued messages                                                         *)

\* Nothing waits at an instance that is not alive, and a message is in a hand only
\* while it is submitted.
RestInv(i) ==
    /\ i > used => ~task[i].alive
    /\ ~task[i].alive => /\ queue[i] = {} /\ hand[i] = {} /\ answer[i] = {}
                         /\ \A m \in Texts : poller[m] # i
    /\ task[i].turn # "submitting" => hand[i] = {}
OpInv == \A o \in Ops : IF ops[o].at = "none" THEN ops[o] = NoOp ELSE ops[o].task \in Instances

\* The places of a message: a queue and copies of it are one, and it moves from
\* there to a hand, an answer, a forced cancellation or its poll.
Queued(m) == \E i \in Instances : m \in queue[i]
Copied(m) == \E o \in Ops : m \in ops[o].snap
InHand(m) == \E i \in Instances : m \in hand[i]
Answered(m) == \E i \in Instances : m \in answer[i]
Polled(m) == poller[m] # Home
Forced(m) == \E o \in Ops : ops[o].msg = m
Moving(m) == InHand(m) \/ Answered(m) \/ Polled(m) \/ Forced(m)
SomeWhere(m) == Queued(m) \/ Copied(m) \/ Moving(m)

\* What was not sent is nowhere.
SentInv == \A m \in Texts \ sent : ~SomeWhere(m) /\ taken[m] = 0

\* A message is taken once and then nowhere, or not taken and in one place; what a
\* cancellation will drop with its instance is in its snapshot.
TakenInv(m) == taken[m] <= 1 /\ (taken[m] = 0 <=> SomeWhere(m))
AloneInv(m) == /\ Moving(m) => ~Queued(m) /\ ~Copied(m)
               /\ InHand(m) => ~Answered(m) /\ ~Polled(m) /\ ~Forced(m)
               /\ Answered(m) => ~Polled(m) /\ ~Forced(m)
               /\ Polled(m) => ~Forced(m)
OnceInv(m) ==
    /\ \A i, j \in Instances : /\ m \in queue[i] /\ m \in queue[j] => i = j
                               /\ m \in hand[i] /\ m \in hand[j] => i = j
                               /\ m \in answer[i] /\ m \in answer[j] => i = j
    /\ \A o, p \in Ops : ops[o].msg = m /\ ops[p].msg = m => o = p
CopyInv(m) == \A o \in Ops :
                  ops[o].kind = "cancel" /\ ops[o].at = "read" /\ m \in queue[ops[o].task] => m \in ops[o].snap
PlacesInv(m) == TakenInv(m) /\ AloneInv(m) /\ OnceInv(m) /\ CopyInv(m)

TaskRecord == [alive : BOOLEAN, resume : {"loading", "asking", "done"},
               turn : {"idle", "submitting", "running"}]
Places == {"none", "read", "wait", "create", "restore"}
Operation == [kind : {"none", "cancel", "failure"}, at : Places, task : 0..MaxInstances,
              snap : SUBSET Texts, msg : Texts \union {NoMsg}]
TextTypes == /\ queue \in [Instances -> SUBSET Texts]
             /\ hand \in [Instances -> SUBSET Texts] /\ answer \in [Instances -> SUBSET Texts]
             /\ poller \in [Texts -> 0..MaxInstances]
             /\ sent \subseteq Texts /\ taken \in [Texts -> Nat] /\ gaps \subseteq Texts
ShownTypes == /\ shown \in 0..Other /\ stashed \in 0..MaxInstances /\ used \in Instances
              /\ moves \in 0..Moves
ReplaceTypes == /\ TextTypes /\ ShownTypes
                /\ task \in [Instances -> TaskRecord] /\ ops \in [Ops -> Operation]

ReplaceInv == /\ ReplaceTypes /\ OpInv /\ SentInv
              /\ \A i \in Instances : RestInv(i)
              /\ \A m \in sent \ gaps : PlacesInv(m)

----------------------------------------------------------------------------
(* Operations and instances, field by field                                *)

\* An operation moves on, or ends.
MovesOn(o, at) == /\ ops'[o].at = at /\ ops'[o].kind = ops[o].kind /\ ops'[o].task = ops[o].task
                  /\ ops'[o].snap = ops[o].snap /\ ops'[o].msg = ops[o].msg
OthersStay(o) == \A p \in Ops \ {o} : ops'[p] = ops[p]

LEMMA HomeIs == Home \in 0..MaxInstances /\ Home \notin Instances
BY ReplacementAssumption DEF Home, Instances

\* The records that operations and instances become are of their types.
LEMMA OpMoves ==
    ASSUME ReplaceTypes, NEW o \in Ops, NEW at \in Places, ops' = [ops EXCEPT ![o].at = at]
    PROVE  ops' \in [Ops -> Operation] /\ MovesOn(o, at) /\ OthersStay(o)
<1>1. ops[o] \in Operation
  BY DEF ReplaceTypes
<1>2. [ops[o] EXCEPT !.at = at] \in Operation
  BY <1>1 DEF Operation
<1> QED
  BY <1>1, <1>2 DEF ReplaceTypes, MovesOn, OthersStay

LEMMA NoOpIs == NoOp \in Operation /\ NoOp.at = "none" /\ NoOp.snap = {} /\ NoOp.msg = NoMsg
BY ReplacementAssumption DEF NoOp, Operation, Places, Home

LEMMA OpEnds ==
    ASSUME ReplaceTypes, NEW o \in Ops, ops' = [ops EXCEPT ![o] = NoOp]
    PROVE  ops' \in [Ops -> Operation] /\ ops'[o] = NoOp /\ OthersStay(o)
BY NoOpIs DEF ReplaceTypes, OthersStay

LEMMA TaskMoves ==
    ASSUME task \in [Instances -> TaskRecord], NEW i \in Instances
    PROVE  /\ [task[i] EXCEPT !.alive = FALSE] \in TaskRecord
           /\ [task[i] EXCEPT !.alive = TRUE] \in TaskRecord
           /\ [task[i] EXCEPT !.resume = "asking"] \in TaskRecord
           /\ \A turn \in {"idle", "submitting", "running"} :
                 /\ [task[i] EXCEPT !.turn = turn] \in TaskRecord
                 /\ [task[i] EXCEPT !.resume = "done", !.turn = turn] \in TaskRecord
BY DEF TaskRecord

\* An operation begins, with its copy; or fails; or has made its instance.
LEMMA OpBegins ==
    ASSUME ReplaceTypes, NEW o \in Ops, NEW t \in Texts \union {NoMsg}, BeginCancel(o, t)
    PROVE  /\ ops' \in [Ops -> Operation] /\ OthersStay(o)
           /\ ops'[o].kind = "cancel" /\ ops'[o].at = "read" /\ ops'[o].task = shown
           /\ ops'[o].snap = queue[shown] \ {t} /\ ops'[o].msg = t
<1> DEFINE begun == [kind |-> "cancel", at |-> "read", task |-> shown, snap |-> queue[shown] \ {t}, msg |-> t]
<1>1. begun \in Operation
  <2>1. shown \in Instances /\ shown \in 0..MaxInstances
    BY DEF BeginCancel, Instances
  <2>2. queue[shown] \ {t} \in SUBSET Texts
    BY <2>1 DEF ReplaceTypes, TextTypes
  <2> QED
    BY <2>1, <2>2 DEF Operation, Places
<1>2. ops' = [ops EXCEPT ![o] = begun]
  BY DEF BeginCancel
<1>3. begun.kind = "cancel" /\ begun.at = "read" /\ begun.task = shown /\ begun.snap = queue[shown] \ {t} /\ begun.msg = t
  OBVIOUS
<1> HIDE DEF begun
<1> QED
  BY <1>1, <1>2, <1>3 DEF ReplaceTypes, OthersStay

LEMMA OpFails ==
    ASSUME ReplaceTypes, NEW o \in Ops, NEW i \in Instances, StreamFails(o, i)
    PROVE  /\ ops' \in [Ops -> Operation] /\ OthersStay(o) /\ ops[o] = NoOp
           /\ \/ ops' = ops
              \/ /\ ops'[o].kind = "failure" /\ ops'[o].at = "read" /\ ops'[o].task = i
                 /\ ops'[o].snap = queue[i] /\ ops'[o].msg = NoMsg
<1> DEFINE begun == [kind |-> "failure", at |-> "read", task |-> i, snap |-> queue[i], msg |-> NoMsg]
<1>1. begun \in Operation
  BY DEF ReplaceTypes, TextTypes, Operation, Places, Instances
<1>2. ops[o] = NoOp /\ (ops' = ops \/ ops' = [ops EXCEPT ![o] = begun])
  BY DEF StreamFails
<1>3. begun.kind = "failure" /\ begun.at = "read" /\ begun.task = i /\ begun.snap = queue[i] /\ begun.msg = NoMsg
  OBVIOUS
<1> HIDE DEF begun
<1> QED
  BY <1>1, <1>2, <1>3 DEF ReplaceTypes, OthersStay

LEMMA OpCreates ==
    ASSUME ReplaceTypes, NEW o \in Ops, CreateNew(o)
    PROVE  /\ ops' \in [Ops -> Operation] /\ OthersStay(o)
           /\ ops'[o].at = "restore" /\ ops'[o].kind = ops[o].kind /\ ops'[o].task = used + 1
           /\ ops'[o].snap = ops[o].snap /\ ops'[o].msg = ops[o].msg
           /\ used' = used + 1 /\ used' \in Instances
<1>1. used' = used + 1 /\ used + 1 \in Instances
  BY ReplacementAssumption DEF CreateNew, ReplaceTypes, ShownTypes, Instances
<1>2. ops' = [ops EXCEPT ![o].at = "restore", ![o].task = used + 1]
  BY <1>1 DEF CreateNew
<1>3. used + 1 \in 0..MaxInstances
  BY <1>1 DEF Instances
<1> QED
  BY <1>1, <1>2, <1>3 DEF ReplaceTypes, Operation, Places, OthersStay

\* What an abort leaves, field by field.
LEMMA AbortIs ==
    ASSUME ReplaceTypes, NEW i \in Instances, NEW lost, Abort(i, lost)
    PROVE  /\ ~task'[i].alive /\ \A j \in Instances \ {i} : task'[j] = task[j]
           /\ \A j \in Instances : /\ queue'[j] = IF j = i THEN {} ELSE queue[j]
                                   /\ hand'[j] = IF j = i THEN {} ELSE hand[j]
                                   /\ answer'[j] = IF j = i THEN {} ELSE answer[j]
           /\ \A m \in Texts : poller'[m] = IF poller[m] = i THEN Home ELSE poller[m]
           /\ gaps' = gaps \union lost \union hand[i] \union answer[i] \union {m \in Texts : poller[m] = i}
BY DEF ReplaceTypes, TextTypes, Abort

Drained(i, q, late, m) ==
    /\ \A j \in Instances : /\ queue'[j] = IF j = i THEN q \ {m} ELSE queue[j]
                            /\ hand'[j] = IF j = i THEN {m} ELSE hand[j]
    /\ task'[i].turn = "submitting" /\ task'[i].alive = task[i].alive
    /\ \A j \in Instances \ {i} : task'[j] = task[j]
    /\ gaps' = gaps \union late \union ({m} \cap Snapshots)

\* What draining the queue of an instance does, field by field.
LEMMA DrainIs ==
    ASSUME ReplaceTypes, NEW i \in Instances, NEW q, q \subseteq Texts, NEW late, Drain(i, q, late)
    PROVE  \E m \in q : Drained(i, q, late, m)
<1>1. PICK m \in q :
        /\ queue' = [queue EXCEPT ![i] = q \ {m}] /\ hand' = [hand EXCEPT ![i] = {m}]
        /\ task' = [task EXCEPT ![i] = [task[i] EXCEPT !.turn = "submitting"]]
        /\ gaps' = gaps \union late \union ({m} \cap Snapshots)
  BY DEF Drain
<1>2. \A j \in Instances : /\ queue'[j] = IF j = i THEN q \ {m} ELSE queue[j]
                           /\ hand'[j] = IF j = i THEN {m} ELSE hand[j]
  BY <1>1 DEF ReplaceTypes, TextTypes
<1>3. /\ task'[i].turn = "submitting" /\ task'[i].alive = task[i].alive
      /\ \A j \in Instances \ {i} : task'[j] = task[j]
  BY <1>1 DEF ReplaceTypes
<1> QED
  BY <1>1, <1>2, <1>3 DEF Drained

\* An instance that drains its queue is alive and submits.
LEMMA DrainRests ==
    ASSUME ReplaceTypes, NEW i \in Instances, NEW q, q \subseteq Texts, NEW late, Drain(i, q, late),
           task[i].alive, UNCHANGED <<used, answer, poller>>, NEW j \in Instances, RestInv(j)
    PROVE  RestInv(j)'
<1>1. PICK m \in q : Drained(i, q, late, m)
  BY DrainIs
<1>2. CASE j = i
  BY <1>1, <1>2 DEF RestInv, Drained
<1>3. CASE j # i
  BY <1>1, <1>3 DEF RestInv, Drained
<1> QED
  BY <1>2, <1>3

\* A queue, and one with another message.
LEMMA DrainsMore == ASSUME ReplaceTypes, NEW i \in Instances
                    PROVE  /\ queue[i] \subseteq Texts
                           /\ \A m \in Texts : queue[i] \union {m} \subseteq Texts
BY DEF ReplaceTypes, TextTypes

\* The instance that polls, or that is on screen.
LEMMA PollerIs == ASSUME ReplaceTypes, NEW m \in Texts, poller[m] # Home
                  PROVE  poller[m] \in Instances
BY DEF ReplaceTypes, TextTypes, Home, Instances

----------------------------------------------------------------------------
(* Types, and what is true of instances and operations                     *)

\* Types: one lemma for each part of ReplaceTypes.
LEMMA TextStep ==
    ASSUME ReplaceTypes, OpInv, [ReplaceNext]_replaceVars
    PROVE  TextTypes'
<1>1. CASE UNCHANGED replaceVars
  BY <1>1 DEF ReplaceTypes, TextTypes, replaceVars
<1>2. ASSUME NEW k \in Instances, Loaded(k) PROVE TextTypes'
  BY <1>2 DEF ReplaceTypes, TextTypes, Loaded
<1>3. ASSUME NEW k \in Instances, PromptReturns(k) PROVE TextTypes'
  BY <1>3, HomeIs DEF ReplaceTypes, TextTypes, PromptReturns, Take
<1>4. ASSUME NEW k \in Instances, Submitted(k) PROVE TextTypes'
  BY <1>4 DEF ReplaceTypes, TextTypes, Submitted, Take
<1>5. ASSUME NEW k \in Instances, TurnEnds(k) PROVE TextTypes'
  BY <1>5 DEF ReplaceTypes, TextTypes, TurnEnds, Drain
<1>6. ASSUME NEW o \in Ops, NEW k \in Instances, StreamFails(o, k) PROVE TextTypes'
  BY <1>6, HomeIs DEF ReplaceTypes, TextTypes, StreamFails
<1>7. ASSUME NEW o \in Ops, HistoryRead(o) PROVE TextTypes'
  <2>0. ops[o].task \in Instances
    BY <1>7 DEF HistoryRead, OpInv
  <2>1. /\ queue' \in [Instances -> SUBSET Texts]
        /\ hand' \in [Instances -> SUBSET Texts]
        /\ answer' \in [Instances -> SUBSET Texts]
    BY <1>7, <2>0 DEF ReplaceTypes, TextTypes, HistoryRead, Abort
  <2>2. /\ poller' \in [Texts -> 0..MaxInstances]
        /\ sent' \subseteq Texts /\ taken' \in [Texts -> Nat]
        /\ gaps' \subseteq Texts
    BY <1>7, <2>0, HomeIs DEF ReplaceTypes, TextTypes, HistoryRead, Abort
  <2> QED
    BY <2>1, <2>2 DEF TextTypes
<1>8. ASSUME NEW o \in Ops, SkipReload(o) PROVE TextTypes'
  <2>1. /\ queue' \in [Instances -> SUBSET Texts]
        /\ hand' \in [Instances -> SUBSET Texts]
        /\ answer' \in [Instances -> SUBSET Texts]
    BY <1>8 DEF ReplaceTypes, TextTypes, SkipReload, Instances
  <2>2. /\ poller' \in [Texts -> 0..MaxInstances]
        /\ sent' \subseteq Texts /\ taken' \in [Texts -> Nat]
        /\ gaps' \subseteq Texts
    BY <1>8 DEF ReplaceTypes, TextTypes, SkipReload, Poll, Operation, Lost, Home, Instances
  <2> QED
    BY <2>1, <2>2 DEF TextTypes
<1>9. ASSUME NEW o \in Ops, RemoveOld(o) PROVE TextTypes'
  BY <1>9, HomeIs DEF ReplaceTypes, TextTypes, RemoveOld, Abort
<1>10. ASSUME NEW o \in Ops, CreateNew(o) PROVE TextTypes'
  BY <1>10 DEF ReplaceTypes, TextTypes, CreateNew
<1>11. ASSUME NEW o \in Ops, RestoreQueue(o) PROVE TextTypes'
  <2>1. queue' \in [Instances -> SUBSET Texts]
    BY <1>11 DEF ReplaceTypes, TextTypes, RestoreQueue, Operation, Instances
  <2>2. hand' \in [Instances -> SUBSET Texts]
    BY <1>11 DEF ReplaceTypes, TextTypes, RestoreQueue, Instances
  <2>3. answer' \in [Instances -> SUBSET Texts]
    BY <1>11 DEF ReplaceTypes, TextTypes, RestoreQueue, Instances
  <2>4. poller' \in [Texts -> 0..MaxInstances]
    BY <1>11 DEF ReplaceTypes, TextTypes, RestoreQueue, Poll, Instances
  <2>5. sent' \subseteq Texts /\ taken' \in [Texts -> Nat]
    BY <1>11 DEF ReplaceTypes, TextTypes, RestoreQueue, Instances
  <2>6. gaps' \subseteq Texts
    BY <1>11 DEF ReplaceTypes, TextTypes, RestoreQueue, Operation, Lost, Instances
  <2> QED
    BY <2>1, <2>2, <2>3, <2>4, <2>5, <2>6 DEF TextTypes
<1>12. ASSUME NEW t \in Texts, CheckAndSend(t) PROVE TextTypes'
  <2>0. poller[t] \in Instances
    BY <1>12 DEF CheckAndSend, ReplaceTypes, TextTypes, Home, Instances
  <2>1. /\ queue' \in [Instances -> SUBSET Texts]
        /\ hand' \in [Instances -> SUBSET Texts]
        /\ answer' \in [Instances -> SUBSET Texts]
    BY <1>12, <2>0 DEF ReplaceTypes, TextTypes, CheckAndSend, Respond
  <2>2. /\ poller' \in [Texts -> 0..MaxInstances]
        /\ sent' \subseteq Texts /\ taken' \in [Texts -> Nat]
        /\ gaps' \subseteq Texts
    BY <1>12, <2>0, HomeIs DEF ReplaceTypes, TextTypes, CheckAndSend, Respond
  <2> QED
    BY <2>1, <2>2 DEF TextTypes
<1>13. ASSUME NEW t \in Texts, QueueMessage(t) PROVE TextTypes'
  BY <1>13 DEF ReplaceTypes, TextTypes, QueueMessage, Drain
<1>14. ASSUME NEW t \in Texts, AnswerPrompt(t) PROVE TextTypes'
  BY <1>14 DEF ReplaceTypes, TextTypes, AnswerPrompt, Respond
<1>15. ASSUME NEW o \in Ops, Cancel(o) PROVE TextTypes'
  BY <1>15 DEF ReplaceTypes, TextTypes, Cancel
<1>16. ASSUME NEW o \in Ops, ReadFails(o) PROVE TextTypes'
  BY <1>16 DEF ReplaceTypes, TextTypes, ReadFails, Operation, Lost
<1>17. ASSUME NEW o \in Ops, NEW t \in Texts, ForceSend(o, t) PROVE TextTypes'
  BY <1>17 DEF ReplaceTypes, TextTypes, ForceSend
<1>18. CASE LeaveTask
  BY <1>18 DEF ReplaceTypes, TextTypes, LeaveTask
<1>19. CASE ReturnToTask
  BY <1>19 DEF ReplaceTypes, TextTypes, ReturnToTask
<1> QED
  BY <1>1, <1>2, <1>3, <1>4, <1>5, <1>6, <1>7, <1>8, <1>9, <1>10, <1>11, <1>12, <1>13, <1>14,
     <1>15, <1>16, <1>17, <1>18, <1>19
     DEF ReplaceNext, ReplaceHost

LEMMA ShownStep ==
    ASSUME ReplaceTypes, [ReplaceNext]_replaceVars
    PROVE  ShownTypes'
<1>1. CASE UNCHANGED replaceVars
  BY <1>1 DEF ReplaceTypes, ShownTypes, replaceVars
<1>2. ASSUME NEW k \in Instances, Loaded(k) PROVE ShownTypes'
  BY <1>2 DEF ReplaceTypes, ShownTypes, Loaded
<1>3. ASSUME NEW k \in Instances, PromptReturns(k) PROVE ShownTypes'
  BY <1>3 DEF ReplaceTypes, ShownTypes, PromptReturns
<1>4. ASSUME NEW k \in Instances, Submitted(k) PROVE ShownTypes'
  BY <1>4 DEF ReplaceTypes, ShownTypes, Submitted
<1>5. ASSUME NEW k \in Instances, TurnEnds(k) PROVE ShownTypes'
  BY <1>5 DEF ReplaceTypes, ShownTypes, TurnEnds
<1>6. ASSUME NEW o \in Ops, NEW k \in Instances, StreamFails(o, k) PROVE ShownTypes'
  BY <1>6, ReplacementAssumption DEF ReplaceTypes, ShownTypes, StreamFails
<1>7. ASSUME NEW o \in Ops, HistoryRead(o) PROVE ShownTypes'
  BY <1>7 DEF ReplaceTypes, ShownTypes, HistoryRead
<1>8. ASSUME NEW o \in Ops, SkipReload(o) PROVE ShownTypes'
  BY <1>8 DEF ReplaceTypes, ShownTypes, SkipReload
<1>9. ASSUME NEW o \in Ops, RemoveOld(o) PROVE ShownTypes'
  BY <1>9, ReplacementAssumption DEF ReplaceTypes, ShownTypes, Other, Home, RemoveOld
<1>10. ASSUME NEW o \in Ops, CreateNew(o) PROVE ShownTypes'
  BY <1>10, ReplacementAssumption DEF ReplaceTypes, ShownTypes, Other, Instances, CreateNew
<1>11. ASSUME NEW o \in Ops, RestoreQueue(o) PROVE ShownTypes'
  BY <1>11 DEF ReplaceTypes, ShownTypes, RestoreQueue
<1>12. ASSUME NEW t \in Texts, CheckAndSend(t) PROVE ShownTypes'
  BY <1>12 DEF ReplaceTypes, ShownTypes, CheckAndSend
<1>13. ASSUME NEW t \in Texts, QueueMessage(t) PROVE ShownTypes'
  BY <1>13 DEF ReplaceTypes, ShownTypes, QueueMessage
<1>14. ASSUME NEW t \in Texts, AnswerPrompt(t) PROVE ShownTypes'
  BY <1>14 DEF ReplaceTypes, ShownTypes, AnswerPrompt
<1>15. ASSUME NEW o \in Ops, Cancel(o) PROVE ShownTypes'
  BY <1>15, ReplacementAssumption DEF ReplaceTypes, ShownTypes, Cancel, BeginCancel
<1>16. ASSUME NEW o \in Ops, ReadFails(o) PROVE ShownTypes'
  BY <1>16 DEF ReplaceTypes, ShownTypes, ReadFails
<1>17. ASSUME NEW o \in Ops, NEW t \in Texts, ForceSend(o, t) PROVE ShownTypes'
  BY <1>17, ReplacementAssumption DEF ReplaceTypes, ShownTypes, ForceSend, BeginCancel
<1>18. CASE LeaveTask
  BY <1>18, ReplacementAssumption DEF ReplaceTypes, ShownTypes, Other, Home, Instances, LeaveTask
<1>19. CASE ReturnToTask
  BY <1>19, ReplacementAssumption DEF ReplaceTypes, ShownTypes, Other, Home, ReturnToTask
<1> QED
  BY <1>1, <1>2, <1>3, <1>4, <1>5, <1>6, <1>7, <1>8, <1>9, <1>10, <1>11, <1>12, <1>13, <1>14,
     <1>15, <1>16, <1>17, <1>18, <1>19
     DEF ReplaceNext, ReplaceHost

LEMMA TaskStep ==
    ASSUME ReplaceTypes, OpInv, [ReplaceNext]_replaceVars
    PROVE  task' \in [Instances -> TaskRecord]
<1>1. CASE UNCHANGED replaceVars
  BY <1>1 DEF ReplaceTypes, replaceVars
<1>2. ASSUME NEW k \in Instances, Loaded(k) PROVE task' \in [Instances -> TaskRecord]
  BY <1>2, TaskMoves DEF ReplaceTypes, Loaded
<1>3. ASSUME NEW k \in Instances, PromptReturns(k) PROVE task' \in [Instances -> TaskRecord]
  <2>1. task[k].turn \in {"idle", "submitting", "running"}
    BY DEF ReplaceTypes, TaskRecord
  <2>2. \E turn \in {"idle", "submitting", "running"} :
           task' = [task EXCEPT ![k] = [task[k] EXCEPT !.resume = "done", !.turn = turn]]
    BY <1>3, <2>1 DEF PromptReturns
  <2> QED
    BY <2>2, TaskMoves DEF ReplaceTypes
<1>4. ASSUME NEW k \in Instances, Submitted(k) PROVE task' \in [Instances -> TaskRecord]
  BY <1>4, TaskMoves DEF ReplaceTypes, Submitted
<1>5. ASSUME NEW k \in Instances, TurnEnds(k) PROVE task' \in [Instances -> TaskRecord]
  BY <1>5, TaskMoves DEF ReplaceTypes, TurnEnds, Drain
<1>6. ASSUME NEW o \in Ops, NEW k \in Instances, StreamFails(o, k) PROVE task' \in [Instances -> TaskRecord]
  <2>1. task' = [task EXCEPT ![k] = [task[k] EXCEPT !.alive = FALSE]]
    BY <1>6 DEF StreamFails
  <2> QED
    BY <2>1, TaskMoves DEF ReplaceTypes
<1>7. ASSUME NEW o \in Ops, HistoryRead(o) PROVE task' \in [Instances -> TaskRecord]
  <2>1. task' = task \/ \E i \in Instances : task' = [task EXCEPT ![i] = [task[i] EXCEPT !.alive = FALSE]]
    BY <1>7 DEF HistoryRead, Abort, ReplaceTypes
  <2> QED
    BY <2>1, TaskMoves DEF ReplaceTypes
<1>8. ASSUME NEW o \in Ops, SkipReload(o) PROVE task' \in [Instances -> TaskRecord]
  BY <1>8 DEF ReplaceTypes, SkipReload
<1>9. ASSUME NEW o \in Ops, RemoveOld(o) PROVE task' \in [Instances -> TaskRecord]
  BY <1>9, TaskMoves DEF ReplaceTypes, RemoveOld, Abort
<1>10. ASSUME NEW o \in Ops, CreateNew(o) PROVE task' \in [Instances -> TaskRecord]
  BY <1>10, TaskMoves DEF ReplaceTypes, CreateNew
<1>11. ASSUME NEW o \in Ops, RestoreQueue(o) PROVE task' \in [Instances -> TaskRecord]
  BY <1>11 DEF ReplaceTypes, RestoreQueue
<1>12. ASSUME NEW t \in Texts, CheckAndSend(t) PROVE task' \in [Instances -> TaskRecord]
  BY <1>12 DEF ReplaceTypes, CheckAndSend
<1>13. ASSUME NEW t \in Texts, QueueMessage(t) PROVE task' \in [Instances -> TaskRecord]
  BY <1>13, TaskMoves DEF ReplaceTypes, QueueMessage, Drain
<1>14. ASSUME NEW t \in Texts, AnswerPrompt(t) PROVE task' \in [Instances -> TaskRecord]
  BY <1>14 DEF ReplaceTypes, AnswerPrompt
<1>15. ASSUME NEW o \in Ops, Cancel(o) PROVE task' \in [Instances -> TaskRecord]
  BY <1>15 DEF ReplaceTypes, Cancel
<1>16. ASSUME NEW o \in Ops, ReadFails(o) PROVE task' \in [Instances -> TaskRecord]
  BY <1>16 DEF ReplaceTypes, ReadFails
<1>17. ASSUME NEW o \in Ops, NEW t \in Texts, ForceSend(o, t) PROVE task' \in [Instances -> TaskRecord]
  BY <1>17 DEF ReplaceTypes, ForceSend
<1>18. CASE LeaveTask
  BY <1>18 DEF ReplaceTypes, LeaveTask
<1>19. CASE ReturnToTask
  BY <1>19 DEF ReplaceTypes, ReturnToTask
<1> QED
  BY <1>1, <1>2, <1>3, <1>4, <1>5, <1>6, <1>7, <1>8, <1>9, <1>10, <1>11, <1>12, <1>13, <1>14,
     <1>15, <1>16, <1>17, <1>18, <1>19
     DEF ReplaceNext, ReplaceHost

LEMMA OpStep ==
    ASSUME ReplaceTypes, [ReplaceNext]_replaceVars
    PROVE  ops' \in [Ops -> Operation]
<1>1. CASE UNCHANGED replaceVars
  BY <1>1 DEF ReplaceTypes, replaceVars
<1>2. ASSUME NEW k \in Instances, Loaded(k) PROVE ops' \in [Ops -> Operation]
  BY <1>2 DEF ReplaceTypes, Loaded
<1>3. ASSUME NEW k \in Instances, PromptReturns(k) PROVE ops' \in [Ops -> Operation]
  BY <1>3 DEF ReplaceTypes, PromptReturns
<1>4. ASSUME NEW k \in Instances, Submitted(k) PROVE ops' \in [Ops -> Operation]
  BY <1>4 DEF ReplaceTypes, Submitted
<1>5. ASSUME NEW k \in Instances, TurnEnds(k) PROVE ops' \in [Ops -> Operation]
  BY <1>5 DEF ReplaceTypes, TurnEnds
<1>6. ASSUME NEW o \in Ops, NEW k \in Instances, StreamFails(o, k) PROVE ops' \in [Ops -> Operation]
  BY <1>6, OpFails
<1>7. ASSUME NEW o \in Ops, HistoryRead(o) PROVE ops' \in [Ops -> Operation]
  BY <1>7, OpMoves DEF HistoryRead, Places
<1>8. ASSUME NEW o \in Ops, SkipReload(o) PROVE ops' \in [Ops -> Operation]
  BY <1>8, OpEnds DEF SkipReload
<1>9. ASSUME NEW o \in Ops, RemoveOld(o) PROVE ops' \in [Ops -> Operation]
  BY <1>9, OpMoves DEF RemoveOld, Places
<1>10. ASSUME NEW o \in Ops, CreateNew(o) PROVE ops' \in [Ops -> Operation]
  BY <1>10, OpCreates
<1>11. ASSUME NEW o \in Ops, RestoreQueue(o) PROVE ops' \in [Ops -> Operation]
  BY <1>11, OpEnds DEF RestoreQueue
<1>12. ASSUME NEW t \in Texts, CheckAndSend(t) PROVE ops' \in [Ops -> Operation]
  BY <1>12 DEF ReplaceTypes, CheckAndSend
<1>13. ASSUME NEW t \in Texts, QueueMessage(t) PROVE ops' \in [Ops -> Operation]
  BY <1>13 DEF ReplaceTypes, QueueMessage
<1>14. ASSUME NEW t \in Texts, AnswerPrompt(t) PROVE ops' \in [Ops -> Operation]
  BY <1>14 DEF ReplaceTypes, AnswerPrompt
<1>15. ASSUME NEW o \in Ops, Cancel(o) PROVE ops' \in [Ops -> Operation]
  BY <1>15, OpBegins DEF Cancel
<1>16. ASSUME NEW o \in Ops, ReadFails(o) PROVE ops' \in [Ops -> Operation]
  BY <1>16, OpEnds DEF ReadFails
<1>17. ASSUME NEW o \in Ops, NEW t \in Texts, ForceSend(o, t) PROVE ops' \in [Ops -> Operation]
  BY <1>17, OpBegins DEF ForceSend
<1>18. CASE LeaveTask
  BY <1>18 DEF ReplaceTypes, LeaveTask
<1>19. CASE ReturnToTask
  BY <1>19 DEF ReplaceTypes, ReturnToTask
<1> QED
  BY <1>1, <1>2, <1>3, <1>4, <1>5, <1>6, <1>7, <1>8, <1>9, <1>10, <1>11, <1>12, <1>13, <1>14,
     <1>15, <1>16, <1>17, <1>18, <1>19
     DEF ReplaceNext, ReplaceHost

\* Nothing rests at a dead instance, and operations keep to their instances.
LEMMA RestStep ==
    ASSUME ReplaceTypes, OpInv, NEW i \in Instances,
           \A j \in Instances : RestInv(j), [ReplaceNext]_replaceVars
    PROVE  RestInv(i)'
<1>1. CASE UNCHANGED replaceVars
  BY <1>1 DEF RestInv, replaceVars
<1>2. ASSUME NEW k \in Instances, Loaded(k) PROVE RestInv(i)'
  <2>1. task'[i].alive = task[i].alive /\ task'[i].turn = task[i].turn
    BY <1>2 DEF Loaded, ReplaceTypes
  <2> QED
    BY <1>2, <2>1 DEF Loaded, RestInv
<1>3. ASSUME NEW k \in Instances, PromptReturns(k) PROVE RestInv(i)'
  <2>1. /\ \A j \in Instances \ {k} : task'[j] = task[j] /\ queue'[j] = queue[j] /\ hand'[j] = hand[j]
        /\ task[k].alive /\ task'[k].alive
    BY <1>3 DEF PromptReturns, ReplaceTypes, TaskRecord
  <2>2. task'[k].turn # "submitting" => hand'[k] = hand[k] /\ task[k].turn # "submitting"
    BY <1>3 DEF PromptReturns, ReplaceTypes, TaskRecord
  <2>3. /\ \A j \in Instances : answer'[j] = {} \/ answer'[j] = answer[j]
        /\ \A m \in Texts : poller'[m] = Home \/ poller'[m] = poller[m]
        /\ used' = used
    BY <1>3 DEF PromptReturns, ReplaceTypes
  <2> QED
    BY <2>1, <2>2, <2>3, HomeIs DEF RestInv
<1>4. ASSUME NEW k \in Instances, Submitted(k) PROVE RestInv(i)'
  <2>1. /\ task'[i].alive = task[i].alive /\ \A j \in Instances \ {k} : task'[j] = task[j]
        /\ hand'[i] = IF i = k THEN {} ELSE hand[i]
    BY <1>4 DEF Submitted, ReplaceTypes, TextTypes
  <2> QED
    BY <1>4, <2>1 DEF Submitted, RestInv
<1>5. ASSUME NEW k \in Instances, TurnEnds(k) PROVE RestInv(i)'
  <2>1. CASE Drain(k, queue[k], {})
    <3>1. task[k].alive /\ UNCHANGED <<used, answer, poller>>
      BY <1>5 DEF TurnEnds
    <3> QED
      BY <2>1, <3>1, DrainRests, DrainsMore
  <2>2. CASE ~Drain(k, queue[k], {})
    <3>1. /\ task'[i].alive = task[i].alive /\ \A j \in Instances \ {k} : task'[j] = task[j]
          /\ task[k].turn = "running"
          /\ UNCHANGED <<used, queue, hand, answer, poller>>
      BY <1>5, <2>2 DEF TurnEnds, ReplaceTypes, TaskRecord
    <3> QED
      BY <3>1 DEF RestInv
  <2> QED
    BY <2>1, <2>2
<1>6. ASSUME NEW o \in Ops, NEW k \in Instances, StreamFails(o, k) PROVE RestInv(i)'
  <2>1. /\ ~task'[k].alive /\ task'[i].turn = task[i].turn /\ \A j \in Instances \ {k} : task'[j] = task[j]
        /\ used' = used
    BY <1>6 DEF StreamFails, ReplaceTypes
  <2>2. /\ queue'[i] = (IF i = k THEN {} ELSE queue[i]) /\ hand'[i] = (IF i = k THEN {} ELSE hand[i])
        /\ answer'[i] = (IF i = k THEN {} ELSE answer[i])
        /\ \A m \in Texts : poller'[m] = IF poller[m] = k THEN Home ELSE poller[m]
    BY <1>6 DEF StreamFails, ReplaceTypes, TextTypes
  <2> QED
    BY <2>1, <2>2, HomeIs DEF RestInv
<1>7. ASSUME NEW o \in Ops, HistoryRead(o) PROVE RestInv(i)'
  <2>1. CASE UNCHANGED <<task, queue, hand, answer, poller>>
    BY <1>7, <2>1 DEF HistoryRead, RestInv
  <2>2. CASE ~UNCHANGED <<task, queue, hand, answer, poller>>
    <3>1. PICK k \in Instances, lost \in SUBSET Texts : Abort(k, lost)
      BY <1>7, <2>2 DEF HistoryRead, OpInv, ReplaceTypes
    <3>2. used' = used
      BY <1>7 DEF HistoryRead
    <3> QED
      BY <3>1, <3>2, AbortIs, HomeIs DEF RestInv
  <2> QED
    BY <2>1, <2>2
<1>8. ASSUME NEW o \in Ops, SkipReload(o) PROVE RestInv(i)'
  <2>1. \A m \in Texts : poller'[m] # poller[m] => poller'[m] \in Instances /\ task[poller'[m]].alive
    BY <1>8 DEF SkipReload, Poll, ReplaceTypes, TextTypes
  <2> QED
    BY <1>8, <2>1 DEF SkipReload, RestInv
<1>9. ASSUME NEW o \in Ops, RemoveOld(o) PROVE RestInv(i)'
  <2>1. CASE UNCHANGED <<task, queue, hand, answer, poller>>
    BY <1>9, <2>1 DEF RemoveOld, RestInv
  <2>2. CASE ~UNCHANGED <<task, queue, hand, answer, poller>>
    <3>1. PICK k \in Instances, lost \in SUBSET Texts : Abort(k, lost)
      BY <1>9, <2>2 DEF RemoveOld, ReplaceTypes, TextTypes
    <3>2. used' = used
      BY <1>9 DEF RemoveOld
    <3> QED
      BY <3>1, <3>2, AbortIs, HomeIs DEF RestInv
  <2> QED
    BY <2>1, <2>2
<1>10. ASSUME NEW o \in Ops, CreateNew(o) PROVE RestInv(i)'
  <2>1. used' = used + 1 /\ used' \in Instances /\ used \in Instances
    BY <1>10, OpCreates DEF ReplaceTypes, ShownTypes
  <2>2. /\ task'[used'].alive /\ task'[i].turn = task[i].turn
        /\ i # used' => task'[i] = task[i]
    BY <1>10, <2>1 DEF CreateNew, ReplaceTypes
  <2>3. i > used' => i > used /\ i # used'
    BY <2>1
  <2>4. UNCHANGED <<queue, hand, answer, poller>>
    BY <1>10 DEF CreateNew
  <2> QED
    BY <2>2, <2>3, <2>4 DEF RestInv
<1>11. ASSUME NEW o \in Ops, RestoreQueue(o) PROVE RestInv(i)'
  <2>1. \A m \in Texts : poller'[m] # poller[m] => poller'[m] \in Instances /\ task[poller'[m]].alive
    BY <1>11 DEF RestoreQueue, Poll, ReplaceTypes, TextTypes
  <2>2. ~task[i].alive => queue'[i] = queue[i]
    BY <1>11 DEF RestoreQueue, ReplaceTypes
  <2> QED
    BY <1>11, <2>1, <2>2 DEF RestoreQueue, RestInv
<1>12. ASSUME NEW t \in Texts, CheckAndSend(t) PROVE RestInv(i)'
  <2>1. /\ poller[t] \in Instances
        /\ \A j \in Instances \ {poller[t]} : answer'[j] = answer[j]
        /\ \A m \in Texts : poller'[m] = Home \/ poller'[m] = poller[m]
    BY <1>12, PollerIs DEF CheckAndSend, Respond, ReplaceTypes
  <2> QED
    BY <1>12, <2>1, HomeIs DEF CheckAndSend, RestInv
<1>13. ASSUME NEW t \in Texts, QueueMessage(t) PROVE RestInv(i)'
  <2>1. shown \in Instances /\ UNCHANGED <<used, answer, poller>>
    BY <1>13 DEF QueueMessage
  <2>2. CASE UNCHANGED <<task, queue, hand>>
    BY <2>1, <2>2 DEF RestInv
  <2>3. CASE task[shown].alive /\ queue' = [queue EXCEPT ![shown] = queue[shown] \union {t}] /\ UNCHANGED <<task, hand>>
    BY <2>1, <2>3 DEF RestInv, ReplaceTypes
  <2>4. ASSUME NEW late, task[shown].alive, Drain(shown, queue[shown] \union {t}, late) PROVE RestInv(i)'
    BY <2>1, <2>4, DrainRests, DrainsMore
  <2>5. \/ UNCHANGED <<task, queue, hand>>
        \/ task[shown].alive /\ queue' = [queue EXCEPT ![shown] = queue[shown] \union {t}] /\ UNCHANGED <<task, hand>>
        \/ \E late : task[shown].alive /\ Drain(shown, queue[shown] \union {t}, late)
    BY <1>13 DEF QueueMessage
  <2> QED
    BY <2>2, <2>3, <2>4, <2>5
<1>14. ASSUME NEW t \in Texts, AnswerPrompt(t) PROVE RestInv(i)'
  <2>1. /\ task[shown].alive /\ shown \in Instances
        /\ \A j \in Instances \ {shown} : answer'[j] = answer[j]
    BY <1>14 DEF AnswerPrompt, Respond, ReplaceTypes
  <2> QED
    BY <1>14, <2>1 DEF AnswerPrompt, RestInv
<1>15. ASSUME NEW o \in Ops, Cancel(o) PROVE RestInv(i)'
  BY <1>15 DEF RestInv, Cancel
<1>16. ASSUME NEW o \in Ops, ReadFails(o) PROVE RestInv(i)'
  BY <1>16 DEF RestInv, ReadFails
<1>17. ASSUME NEW o \in Ops, NEW t \in Texts, ForceSend(o, t) PROVE RestInv(i)'
  <2>1. queue'[i] \subseteq queue[i]
    BY <1>17 DEF ForceSend, ReplaceTypes
  <2> QED
    BY <1>17, <2>1 DEF ForceSend, RestInv
<1>18. CASE LeaveTask
  BY <1>18 DEF RestInv, LeaveTask
<1>19. CASE ReturnToTask
  BY <1>19 DEF RestInv, ReturnToTask
<1> QED
  BY <1>1, <1>2, <1>3, <1>4, <1>5, <1>6, <1>7, <1>8, <1>9, <1>10, <1>11, <1>12, <1>13, <1>14,
     <1>15, <1>16, <1>17, <1>18, <1>19
     DEF ReplaceNext, ReplaceHost

LEMMA OpInvStep ==
    ASSUME ReplaceTypes, OpInv, [ReplaceNext]_replaceVars
    PROVE  OpInv'
<1>1. CASE UNCHANGED replaceVars
  BY <1>1 DEF OpInv, replaceVars
<1>2. ASSUME NEW k \in Instances, Loaded(k) PROVE OpInv'
  BY <1>2 DEF OpInv, Loaded
<1>3. ASSUME NEW k \in Instances, PromptReturns(k) PROVE OpInv'
  BY <1>3 DEF OpInv, PromptReturns
<1>4. ASSUME NEW k \in Instances, Submitted(k) PROVE OpInv'
  BY <1>4 DEF OpInv, Submitted
<1>5. ASSUME NEW k \in Instances, TurnEnds(k) PROVE OpInv'
  BY <1>5 DEF OpInv, TurnEnds
<1>6. ASSUME NEW o \in Ops, NEW k \in Instances, StreamFails(o, k) PROVE OpInv'
  BY <1>6, OpFails DEF OpInv, OthersStay
<1>7. ASSUME NEW o \in Ops, HistoryRead(o) PROVE OpInv'
  <2>1. ops[o].task \in Instances
    BY <1>7 DEF HistoryRead, OpInv
  <2> QED
    BY <1>7, <2>1 DEF HistoryRead, OpInv
<1>8. ASSUME NEW o \in Ops, SkipReload(o) PROVE OpInv'
  BY <1>8, NoOpIs DEF SkipReload, OpInv
<1>9. ASSUME NEW o \in Ops, RemoveOld(o) PROVE OpInv'
  <2>1. ops[o].task \in Instances
    BY <1>9 DEF RemoveOld, OpInv
  <2> QED
    BY <1>9, <2>1 DEF RemoveOld, OpInv
<1>10. ASSUME NEW o \in Ops, CreateNew(o) PROVE OpInv'
  BY <1>10, OpCreates DEF OpInv, OthersStay
<1>11. ASSUME NEW o \in Ops, RestoreQueue(o) PROVE OpInv'
  BY <1>11, NoOpIs DEF RestoreQueue, OpInv
<1>12. ASSUME NEW t \in Texts, CheckAndSend(t) PROVE OpInv'
  BY <1>12 DEF OpInv, CheckAndSend
<1>13. ASSUME NEW t \in Texts, QueueMessage(t) PROVE OpInv'
  BY <1>13 DEF OpInv, QueueMessage
<1>14. ASSUME NEW t \in Texts, AnswerPrompt(t) PROVE OpInv'
  BY <1>14 DEF OpInv, AnswerPrompt
<1>15. ASSUME NEW o \in Ops, Cancel(o) PROVE OpInv'
  BY <1>15, OpBegins DEF Cancel, BeginCancel, OpInv
<1>16. ASSUME NEW o \in Ops, ReadFails(o) PROVE OpInv'
  BY <1>16, NoOpIs DEF ReadFails, OpInv
<1>17. ASSUME NEW o \in Ops, NEW t \in Texts, ForceSend(o, t) PROVE OpInv'
  BY <1>17, OpBegins DEF ForceSend, BeginCancel, OpInv
<1>18. CASE LeaveTask
  BY <1>18 DEF OpInv, LeaveTask
<1>19. CASE ReturnToTask
  BY <1>19 DEF OpInv, ReturnToTask
<1> QED
  BY <1>1, <1>2, <1>3, <1>4, <1>5, <1>6, <1>7, <1>8, <1>9, <1>10, <1>11, <1>12, <1>13, <1>14,
     <1>15, <1>16, <1>17, <1>18, <1>19
     DEF ReplaceNext, ReplaceHost

----------------------------------------------------------------------------
(* Where a message that met no gap is                                      *)

\* What happens to one message: an operation keeps what it carries.
Carries == \A o \in Ops : /\ ops'[o].snap = ops[o].snap /\ ops'[o].msg = ops[o].msg
                          /\ ops'[o].at = "read" => ops[o].at = "read" /\ ops'[o].kind = ops[o].kind
                                                    /\ ops'[o].task = ops[o].task

\* An operation that goes on carries the same.
LEMMA CarriesOn ==
    ASSUME ReplaceTypes, NEW o \in Ops, NEW at \in Places, at # "read",
           ops' = [ops EXCEPT ![o].at = at]
    PROVE  Carries
BY DEF Carries

\* The instance an operation replaces is one, while it reads.
LEMMA OpTasks == ASSUME ReplaceTypes, OpInv, NEW o \in Ops, ops[o].at = "read"
                 PROVE  ops[o].task \in Instances
BY DEF OpInv

Unmoved(m) == /\ poller'[m] = poller[m]
              /\ \A j \in Instances : /\ m \in hand'[j] <=> m \in hand[j]
                                      /\ m \in answer'[j] <=> m \in answer[j]

\* A message that an action does not touch.
LEMMA PlacesStay ==
    ASSUME ReplaceTypes, OpInv, Carries, NEW m \in Texts, taken'[m] = taken[m], PlacesInv(m),
           Unmoved(m), \A j \in Instances : m \in queue'[j] <=> m \in queue[j]
    PROVE  PlacesInv(m)'
<1>1. (Queued(m)' <=> Queued(m)) /\ (InHand(m)' <=> InHand(m)) /\ (Answered(m)' <=> Answered(m))
  BY DEF Unmoved, Queued, InHand, Answered
<1>2. (Copied(m)' <=> Copied(m)) /\ (Forced(m)' <=> Forced(m)) /\ (Polled(m)' <=> Polled(m))
  BY DEF Unmoved, Carries, Copied, Polled, Forced
<1>3. TakenInv(m)' /\ AloneInv(m)'
  <2>1. SomeWhere(m)' <=> SomeWhere(m)
    BY <1>1, <1>2 DEF SomeWhere, Moving
  <2> QED
    BY <1>1, <1>2, <2>1 DEF PlacesInv, TakenInv, AloneInv, Moving
<1>4. OnceInv(m)'
  <2>1. \A i, j \in Instances : /\ m \in queue'[i] /\ m \in queue'[j] => i = j
                                /\ m \in hand'[i] /\ m \in hand'[j] => i = j
                                /\ m \in answer'[i] /\ m \in answer'[j] => i = j
    BY DEF Unmoved, PlacesInv, OnceInv
  <2>2. \A o, p \in Ops : ops'[o].msg = m /\ ops'[p].msg = m => o = p
    BY DEF Carries, PlacesInv, OnceInv
  <2> QED
    BY <2>1, <2>2 DEF OnceInv
<1>5. CopyInv(m)'
  BY OpTasks DEF Carries, PlacesInv, CopyInv
<1> QED
  BY <1>3, <1>4, <1>5 DEF PlacesInv

\* An abort drops copies of messages that a snapshot holds too.
LEMMA AbortPlaces ==
    ASSUME ReplaceTypes, OpInv, NEW i \in Instances, NEW lost, Abort(i,
           lost), Carries, UNCHANGED taken,
           NEW m \in Texts, PlacesInv(m), m \notin gaps', m \in queue[i] => Copied(m)
    PROVE  PlacesInv(m)'
<1>1. /\ m \notin hand[i] /\ m \notin answer[i] /\ poller[m] # i /\ m \notin lost
      /\ \A j \in Instances : /\ m \in queue'[j] <=> j # i /\ m \in queue[j]
                              /\ m \in hand'[j] <=> m \in hand[j]
                              /\ m \in answer'[j] <=> m \in answer[j]
      /\ poller'[m] = poller[m]
  BY AbortIs
<1>2. SomeWhere(m)' <=> SomeWhere(m)
  BY <1>1 DEF Carries, SomeWhere, Moving, Queued, Copied, InHand, Answered, Polled, Forced
<1>3. /\ (Queued(m)' => Queued(m)) /\ (Copied(m)' <=> Copied(m))
      /\ (InHand(m)' <=> InHand(m)) /\ (Answered(m)' <=> Answered(m))
      /\ (Polled(m)' <=> Polled(m)) /\ (Forced(m)' <=> Forced(m))
  BY <1>1 DEF Carries, Queued, Copied, InHand, Answered, Polled, Forced
<1>4. TakenInv(m)' /\ AloneInv(m)'
  BY <1>2, <1>3 DEF PlacesInv, TakenInv, AloneInv, Moving
<1>5. OnceInv(m)'
  BY <1>1 DEF Carries, PlacesInv, OnceInv
<1>6. CopyInv(m)'
  BY <1>1, OpTasks DEF Carries, PlacesInv, CopyInv
<1> QED
  BY <1>4, <1>5, <1>6 DEF PlacesInv

\* A message is drawn out of queue i.
Drawn(i, q, t) == \A j \in Instances : /\ queue'[j] = IF j = i THEN q \ {t} ELSE queue[j]
                                       /\ hand'[j] = IF j = i THEN {t} ELSE hand[j]

\* A message that no snapshot holds leaves the queue for a hand.
LEMMA DrawPlaces ==
    ASSUME ReplaceTypes, OpInv, NEW i \in Instances, NEW q, NEW t \in q, Drawn(i, q, t),
           hand[i] = {}, Carries,
           NEW m \in Texts, taken'[m] = taken[m], PlacesInv(m), m \in q <=> m \in queue[i],
           t = m => ~Copied(m),
           poller'[m] = poller[m], \A j \in Instances : m \in answer'[j] <=> m \in answer[j]
    PROVE  PlacesInv(m)'
<1>1. CASE t = m
  <2>1. m \in queue[i] /\ ~Copied(m) /\ Queued(m)
    BY <1>1 DEF Queued
  <2>2. ~Moving(m)
    BY <2>1 DEF PlacesInv, AloneInv
  <2>3. \A j \in Instances : (m \in hand'[j] <=> j = i) /\ m \notin queue'[j]
    <3>1. \A j \in Instances : m \notin hand[j] /\ (m \in queue[j] => j = i)
      BY <2>1, <2>2 DEF PlacesInv, OnceInv, Moving, InHand
    <3> QED
      BY <1>1, <3>1 DEF Drawn
  <2>4. InHand(m)' /\ ~Queued(m)' /\ ~Copied(m)' /\ ~Answered(m)' /\ ~Polled(m)' /\ ~Forced(m)'
    BY <2>1, <2>2, <2>3 DEF Carries, Moving, Queued, Copied, InHand, Answered, Polled, Forced
  <2>5. TakenInv(m)' /\ AloneInv(m)'
    BY <2>1, <2>4 DEF PlacesInv, TakenInv, AloneInv, SomeWhere, Moving
  <2>6. OnceInv(m)' /\ CopyInv(m)'
    BY <2>3, OpTasks DEF Carries, PlacesInv, OnceInv, CopyInv
  <2> QED
    BY <2>5, <2>6 DEF PlacesInv
<1>2. CASE t # m
  <2>1. \A j \in Instances : (m \in hand'[j] <=> m \in hand[j]) /\ (m \in queue'[j] <=> m \in queue[j])
    BY <1>2 DEF Drawn
  <2> QED
    BY <2>1, PlacesStay DEF Unmoved
<1> QED
  BY <1>1, <1>2

\* The same for processManualMessageQueue.
LEMMA DrainPlaces ==
    ASSUME ReplaceTypes, OpInv, NEW i \in Instances, NEW q, q \subseteq Texts, NEW late, Drain(i,
           q, late),
           hand[i] = {}, UNCHANGED <<answer, poller, taken>>, Carries,
           NEW m \in Texts, PlacesInv(m), m \notin gaps', m \in q <=> m \in queue[i]
    PROVE  PlacesInv(m)'
<1>1. PICK t \in q : Drained(i, q, late, t)
  BY DrainIs
<1>2. Drawn(i, q, t) /\ (t = m => ~Copied(m))
  BY <1>1 DEF Drained, Drawn, Snapshots, Copied
<1> QED
  BY <1>2, DrawPlaces

\* A message that stays where it is, queue and snapshot being one place.
LEMMA PlacesKeep ==
    ASSUME NEW m \in Texts, PlacesInv(m), taken'[m] = taken[m],
           Queued(m)' \/ Copied(m)' <=> Queued(m) \/ Copied(m),
           InHand(m)' <=> InHand(m), Answered(m)' <=> Answered(m), Polled(m)' <=> Polled(m),
           Forced(m)' <=> Forced(m), OnceInv(m)', CopyInv(m)'
    PROVE  PlacesInv(m)'
BY DEF PlacesInv, TakenInv, AloneInv, SomeWhere, Moving

\* A message that comes into the conversation is nowhere else.
LEMMA PlacesTaken ==
    ASSUME NEW m \in Texts, PlacesInv(m), SomeWhere(m), ReplaceTypes, taken'[m] = taken[m] + 1,
           ~SomeWhere(m)', ops' = ops, OpInv
    PROVE  PlacesInv(m)'
<1>1. taken[m] = 0 /\ taken'[m] = 1
  BY DEF PlacesInv, TakenInv, ReplaceTypes
<1>2. TakenInv(m)' /\ AloneInv(m)'
  BY <1>1 DEF TakenInv, AloneInv, SomeWhere, Moving
<1>3. OnceInv(m)' /\ CopyInv(m)'
  BY OpTasks DEF OnceInv, CopyInv, SomeWhere, Moving, Queued, InHand, Answered, Forced
<1> QED
  BY <1>2, <1>3 DEF PlacesInv

\* An operation that starts has a copy of queue i.
LEMMA CopyPlaces ==
    ASSUME ReplaceTypes, OpInv, NEW o \in Ops, ops[o] = NoOp, OthersStay(o), NEW i \in Instances,
           NEW m \in Texts, PlacesInv(m), taken'[m] = taken[m], Unmoved(m),
           m \in ops'[o].snap <=> m \in queue[i], ops'[o].msg # m,
           ops'[o].task = i, \A j \in Instances : m \in queue'[j] => m \in queue[j],
           \A j \in Instances \ {i} : m \in queue'[j] <=> m \in queue[j]
    PROVE  PlacesInv(m)'
<1>1. /\ m \notin ops[o].snap /\ ops[o].msg # m
  BY NoOpIs, ReplacementAssumption
<1>2. (Forced(m)' <=> Forced(m)) /\ (Copied(m)' <=> Copied(m) \/ m \in queue[i])
  BY <1>1 DEF Forced, Copied, OthersStay
<1>3. (InHand(m)' <=> InHand(m)) /\ (Answered(m)' <=> Answered(m)) /\ (Polled(m)' <=> Polled(m))
  BY DEF Unmoved, InHand, Answered, Polled
<1>4. Queued(m)' \/ Copied(m)' <=> Queued(m) \/ Copied(m)
  BY <1>2 DEF Queued
<1>5. OnceInv(m)'
  <2>1. \A j, k \in Instances : /\ m \in queue'[j] /\ m \in queue'[k] => j = k
                                /\ m \in hand'[j] /\ m \in hand'[k] => j = k
                                /\ m \in answer'[j] /\ m \in answer'[k] => j = k
    BY DEF Unmoved, PlacesInv, OnceInv
  <2>2. \A p, r \in Ops : ops'[p].msg = m /\ ops'[r].msg = m => p = r
    BY DEF OthersStay, PlacesInv, OnceInv
  <2> QED
    BY <2>1, <2>2 DEF OnceInv
<1>6. CopyInv(m)'
  <2> SUFFICES ASSUME NEW p \in Ops, ops'[p].kind = "cancel", ops'[p].at = "read", m \in queue'[ops'[p].task]
               PROVE  m \in ops'[p].snap
    BY DEF CopyInv
  <2>1. CASE p = o
    BY <2>1
  <2>2. CASE p # o
    <3>1. ops'[p] = ops[p] /\ ops[p].task \in Instances
      BY <2>2, OpTasks DEF OthersStay
    <3> QED
      BY <3>1 DEF PlacesInv, CopyInv
  <2> QED
    BY <2>1, <2>2
<1> QED
  BY <1>2, <1>3, <1>4, <1>5, <1>6, PlacesKeep

\* What is copied only by o is lost with it.
LEMMA LostIs == ASSUME NEW o \in Ops, NEW m, m \in ops[o].snap, ~Queued(m),
                       \A p \in Ops \ {o} : m \notin ops[p].snap
                PROVE  m \in Lost(o)
<1> DEFINE queued == UNION {queue[i] : i \in Instances}
           copied == UNION {ops[p].snap : p \in Ops \ {o}}
<1>1. m \notin queued /\ m \notin copied
  BY DEF Queued
<1>2. Lost(o) = (ops[o].snap \ (queued \union copied)) \union ({ops[o].msg} \ {NoMsg})
  BY DEF Lost
<1> HIDE DEF queued, copied
<1> QED
  BY <1>1, <1>2

\* An operation that ends, once what it carried is somewhere else.
LEMMA EndPlaces ==
    ASSUME ReplaceTypes, OpInv, NEW o \in Ops, ops'[o] = NoOp, OthersStay(o),
           NEW m \in Texts, PlacesInv(m), taken'[m] = taken[m], ops[o].msg # m, Unmoved(m),
           \A j \in Instances : m \in queue'[j] <=> m \in queue[j],
           m \in ops[o].snap => Queued(m) \/ \E p \in Ops \ {o} : m \in ops[p].snap
    PROVE  PlacesInv(m)'
<1>1. m \notin ops'[o].snap /\ ops'[o].msg # m /\ ops'[o].at # "read"
  BY NoOpIs, ReplacementAssumption
<1>2. (Forced(m)' <=> Forced(m)) /\ (Copied(m)' => Copied(m)) /\ (Copied(m) => Queued(m) \/ Copied(m)')
  BY <1>1 DEF Forced, Copied, OthersStay
<1>3. /\ (InHand(m)' <=> InHand(m)) /\ (Answered(m)' <=> Answered(m)) /\ (Polled(m)' <=> Polled(m))
      /\ (Queued(m)' <=> Queued(m))
  BY DEF Unmoved, InHand, Answered, Polled, Queued
<1>4. OnceInv(m)'
  <2>1. \A j, k \in Instances : /\ m \in queue'[j] /\ m \in queue'[k] => j = k
                                /\ m \in hand'[j] /\ m \in hand'[k] => j = k
                                /\ m \in answer'[j] /\ m \in answer'[k] => j = k
    BY DEF Unmoved, PlacesInv, OnceInv
  <2>2. \A p, r \in Ops : ops'[p].msg = m /\ ops'[r].msg = m => p = r
    BY <1>1 DEF OthersStay, PlacesInv, OnceInv
  <2> QED
    BY <2>1, <2>2 DEF OnceInv
<1>5. CopyInv(m)'
  <2> SUFFICES ASSUME NEW p \in Ops, ops'[p].kind = "cancel", ops'[p].at = "read", m \in queue'[ops'[p].task]
               PROVE  m \in ops'[p].snap
    BY DEF CopyInv
  <2>1. p # o /\ ops'[p] = ops[p] /\ ops[p].task \in Instances
    BY <1>1, OpTasks DEF OthersStay
  <2> QED
    BY <2>1 DEF PlacesInv, CopyInv
<1> QED
  BY <1>2, <1>3, <1>4, <1>5, PlacesKeep

\* The poll for a message that was sent by force.
LEMMA PollPlaces ==
    ASSUME ReplaceTypes, OpInv, NEW o \in Ops, ops'[o] = NoOp, OthersStay(o),
           NEW m \in Texts, PlacesInv(m), taken'[m] = taken[m], ops[o].msg = m, poller'[m] # Home,
           \A j \in Instances : /\ m \in queue'[j] => m \in queue[j] \/ m \in ops[o].snap
                                /\ m \in hand'[j] <=> m \in hand[j]
                                /\ m \in answer'[j] <=> m \in answer[j]
    PROVE  PlacesInv(m)'
<1>1. m \notin ops'[o].snap /\ ops'[o].msg # m
  BY NoOpIs, ReplacementAssumption
<1>2. Forced(m) /\ Moving(m)
  BY DEF Forced, Moving
<1>3. ~Queued(m) /\ ~Copied(m) /\ ~InHand(m) /\ ~Answered(m) /\ taken[m] = 0
  BY <1>2 DEF PlacesInv, AloneInv, TakenInv, SomeWhere
<1>4. \A j \in Instances : m \notin queue'[j] /\ m \notin hand'[j] /\ m \notin answer'[j]
  BY <1>3 DEF Queued, Copied, InHand, Answered
<1>5. \A p \in Ops : m \notin ops'[p].snap /\ ops'[p].msg # m
  BY <1>1, <1>3 DEF Copied, OthersStay, PlacesInv, OnceInv
<1>6. ~Queued(m)' /\ ~Copied(m)' /\ ~InHand(m)' /\ ~Answered(m)' /\ ~Forced(m)' /\ Polled(m)'
  BY <1>4, <1>5 DEF Queued, Copied, InHand, Answered, Forced, Polled
<1>7. TakenInv(m)' /\ AloneInv(m)'
  BY <1>3, <1>6 DEF TakenInv, AloneInv, SomeWhere, Moving
<1>8. OnceInv(m)'
  BY <1>4, <1>5 DEF OnceInv
<1>9. CopyInv(m)'
  <2> SUFFICES ASSUME NEW p \in Ops, ops'[p].kind = "cancel", ops'[p].at = "read", m \in queue'[ops'[p].task]
               PROVE  m \in ops'[p].snap
    BY DEF CopyInv
  <2>1. p # o
    BY NoOpIs
  <2>2. ops'[p].task \in Instances
    BY <2>1, OpTasks DEF OthersStay
  <2> QED
    BY <1>4, <2>2
<1> QED
  BY <1>7, <1>8, <1>9 DEF PlacesInv

\* A copy that is restored into the new instance, where it is alone.
LEMMA RestorePlaces ==
    ASSUME ReplaceTypes, OpInv, NEW o \in Ops, ops'[o] = NoOp, OthersStay(o), NEW i \in Instances,
           NEW m \in Texts, PlacesInv(m), taken' = taken, ops[o].msg # m, m \in ops[o].snap,
           ~Queued(m), ~Replacing(i), poller'[m] = poller[m], UNCHANGED <<hand, answer>>,
           \A j \in Instances : m \in queue'[j] <=> j = i
    PROVE  PlacesInv(m)'
<1>1. m \notin ops'[o].snap /\ ops'[o].msg # m /\ ops'[o].at # "read"
  BY NoOpIs, ReplacementAssumption
<1>2. Queued(m)' /\ Copied(m) /\ (Forced(m)' <=> Forced(m))
  BY <1>1 DEF Queued, Copied, Forced, OthersStay
<1>3. (InHand(m)' <=> InHand(m)) /\ (Answered(m)' <=> Answered(m)) /\ (Polled(m)' <=> Polled(m))
  BY DEF InHand, Answered, Polled
<1>4. OnceInv(m)'
  <2>1. \A p, r \in Ops : ops'[p].msg = m /\ ops'[r].msg = m => p = r
    BY <1>1 DEF OthersStay, PlacesInv, OnceInv
  <2> QED
    BY <2>1 DEF PlacesInv, OnceInv
<1>5. CopyInv(m)'
  <2> SUFFICES ASSUME NEW p \in Ops, ops'[p].kind = "cancel", ops'[p].at = "read", m \in queue'[ops'[p].task]
               PROVE  FALSE
    BY DEF CopyInv
  <2>1. p # o /\ ops'[p] = ops[p] /\ ops[p].task \in Instances
    BY <1>1, OpTasks DEF OthersStay
  <2> QED
    BY <2>1 DEF Replacing
<1> QED
  BY <1>2, <1>3, <1>4, <1>5, PlacesKeep

\* Each step leaves a message that met no gap in one place.
LEMMA PlacesStep ==
    ASSUME ReplaceTypes, OpInv, \A j \in Instances : RestInv(j), NEW m \in Texts, m \in sent,
           m \notin gaps', PlacesInv(m), [ReplaceNext]_replaceVars
    PROVE  PlacesInv(m)'
<1>1. CASE UNCHANGED replaceVars
  BY <1>1, PlacesStay DEF replaceVars, Carries, Unmoved
<1>2. ASSUME NEW k \in Instances, Loaded(k) PROVE PlacesInv(m)'
  BY <1>2, PlacesStay DEF Loaded, Carries, Unmoved
<1>3. ASSUME NEW k \in Instances, PromptReturns(k) PROVE PlacesInv(m)'
  <2>1. /\ answer'[k] = {} /\ \A j \in Instances \ {k} : answer'[j] = answer[j]
        /\ poller[m] # k /\ poller'[m] = poller[m] /\ ops' = ops
    BY <1>3 DEF PromptReturns, ReplaceTypes, TextTypes
  <2>2. \/ \E t \in queue[k] : hand[k] = {} /\ Drawn(k, queue[k], t) /\ (t = m => ~Copied(m))
        \/ queue' = queue /\ hand' = hand
    <3>1. task[k].turn = "idle" => hand[k] = {}
      BY DEF RestInv
    <3>2. CASE ~(queue' = queue /\ hand' = hand)
      <4>1. PICK t \in queue[k] : /\ queue' = [queue EXCEPT ![k] = queue[k] \ {t}]
                                  /\ hand' = [hand EXCEPT ![k] = {t}]
                                  /\ t = m => m \notin Snapshots
        BY <1>3, <3>2 DEF PromptReturns
      <4>3. task[k].turn = "idle"
        BY <1>3, <3>2 DEF PromptReturns
      <4>2. Drawn(k, queue[k], t)
        BY <4>1 DEF Drawn, ReplaceTypes, TextTypes
      <4> QED
        BY <3>1, <4>1, <4>2, <4>3 DEF Snapshots, Copied
    <3>3. CASE queue' = queue /\ hand' = hand
      BY <3>3
    <3> QED
      BY <3>2, <3>3
  <2>3. CASE m \in answer[k]
    <3>1. Answered(m) /\ taken'[m] = taken[m] + 1
      BY <1>3, <2>3 DEF Answered, PromptReturns, Take
    <3>2. ~Queued(m) /\ ~Copied(m) /\ ~InHand(m) /\ ~Polled(m) /\ ~Forced(m)
      BY <3>1 DEF PlacesInv, AloneInv, Moving
    <3>3. \A j \in Instances : m \notin queue'[j] /\ m \notin hand'[j]
      BY <2>2, <3>2 DEF Queued, InHand, Drawn
    <3>4. \A j \in Instances : m \notin answer'[j]
      BY <2>1, <2>3 DEF PlacesInv, OnceInv
    <3>5. ~SomeWhere(m)' /\ SomeWhere(m)
      BY <2>1, <3>1, <3>2, <3>3, <3>4
         DEF SomeWhere, Moving, Queued, Copied, InHand, Answered, Polled, Forced
    <3> QED
      BY <2>1, <3>1, <3>5, PlacesTaken
  <2>4. CASE m \notin answer[k]
    <3>1. /\ taken'[m] = taken[m] /\ Carries
          /\ \A j \in Instances : m \in answer'[j] <=> m \in answer[j]
      BY <1>3, <2>1, <2>4 DEF PromptReturns, Take, Carries
    <3>2. CASE queue' = queue /\ hand' = hand
      BY <2>1, <3>1, <3>2, PlacesStay DEF Unmoved
    <3>3. CASE \E t \in queue[k] : hand[k] = {} /\ Drawn(k, queue[k], t) /\ (t = m => ~Copied(m))
      BY <2>1, <3>1, <3>3, DrawPlaces
    <3> QED
      BY <2>2, <3>2, <3>3
  <2> QED
    BY <2>3, <2>4
<1>4. ASSUME NEW k \in Instances, Submitted(k) PROVE PlacesInv(m)'
  <2>1. /\ hand'[k] = {} /\ \A j \in Instances \ {k} : hand'[j] = hand[j]
        /\ UNCHANGED <<queue, answer, ops, poller>>
    BY <1>4 DEF Submitted, ReplaceTypes, TextTypes
  <2>2. CASE m \in hand[k]
    <3>1. InHand(m) /\ taken'[m] = taken[m] + 1
      BY <1>4, <2>2 DEF InHand, Submitted, Take
    <3>2. ~Queued(m) /\ ~Copied(m) /\ ~Answered(m) /\ ~Polled(m) /\ ~Forced(m)
      BY <3>1 DEF PlacesInv, AloneInv, Moving
    <3>3. \A j \in Instances : m \notin hand'[j]
      BY <2>1, <2>2 DEF PlacesInv, OnceInv
    <3>4. ~SomeWhere(m)' /\ SomeWhere(m)
      BY <2>1, <3>1, <3>2, <3>3
         DEF SomeWhere, Moving, Queued, Copied, InHand, Answered, Polled, Forced
    <3> QED
      BY <2>1, <3>1, <3>4, PlacesTaken
  <2>3. CASE m \notin hand[k]
    <3>1. taken'[m] = taken[m] /\ Carries
      BY <1>4, <2>1, <2>3 DEF Submitted, Take, Carries
    <3> QED
      BY <2>1, <2>3, <3>1, PlacesStay DEF Unmoved
  <2> QED
    BY <2>2, <2>3
<1>5. ASSUME NEW k \in Instances, TurnEnds(k) PROVE PlacesInv(m)'
  <2>1. UNCHANGED <<answer, poller, taken>> /\ Carries /\ hand[k] = {}
    BY <1>5 DEF TurnEnds, Carries, RestInv
  <2>2. CASE Drain(k, queue[k], {})
    BY <2>1, <2>2, DrainPlaces, DrainsMore
  <2>3. CASE ~Drain(k, queue[k], {})
    <3>1. UNCHANGED <<queue, hand>>
      BY <1>5, <2>3 DEF TurnEnds
    <3> QED
      BY <2>1, <3>1, PlacesStay DEF Unmoved
  <2> QED
    BY <2>2, <2>3
<1>6. ASSUME NEW o \in Ops, NEW k \in Instances, StreamFails(o, k) PROVE PlacesInv(m)'
  <2>1. /\ m \notin hand[k] /\ m \notin answer[k] /\ poller[m] # k
        /\ ops' = ops => m \notin queue[k] \/ m \in Snapshots
        /\ taken' = taken
    BY <1>6 DEF StreamFails
  <2>2. /\ \A j \in Instances : (m \in queue'[j] <=> j # k /\ m \in queue[j])
        /\ Unmoved(m)
    BY <1>6, <2>1 DEF StreamFails, Unmoved, ReplaceTypes, TextTypes
  <2>3. CASE ops' = ops
    <3>1. Abort(k, queue[k] \ Snapshots)
      BY <1>6, <2>3 DEF StreamFails, Abort
    <3>2. Carries /\ (m \in queue[k] => Copied(m))
      BY <2>1, <2>3 DEF Carries, Snapshots, Copied
    <3> QED
      BY <2>1, <3>1, <3>2, AbortPlaces
  <2>4. CASE ops' # ops
    <3>1. /\ OthersStay(o) /\ ops[o] = NoOp /\ ops'[o].task = k
          /\ ops'[o].snap = queue[k] /\ ops'[o].msg = NoMsg
      BY <1>6, <2>4, OpFails
    <3>2. NoMsg # m
      BY ReplacementAssumption
    <3> QED
      BY <2>1, <2>2, <3>1, <3>2, CopyPlaces
  <2> QED
    BY <2>3, <2>4
<1>7. ASSUME NEW o \in Ops, HistoryRead(o) PROVE PlacesInv(m)'
  <2>1. Carries /\ taken' = taken
    BY <1>7, CarriesOn DEF HistoryRead, Places
  <2>2. CASE ops[o].kind = "cancel" /\ task[ops[o].task].alive
    <3>1. Abort(ops[o].task, {}) /\ ops[o].task \in Instances
      BY <1>7, <2>2, OpTasks DEF HistoryRead
    <3>2. m \in queue[ops[o].task] => Copied(m)
      BY <1>7, <2>2 DEF HistoryRead, PlacesInv, CopyInv, Copied
    <3> QED
      BY <2>1, <3>1, <3>2, AbortPlaces
  <2>3. CASE ~(ops[o].kind = "cancel" /\ task[ops[o].task].alive)
    <3>1. UNCHANGED <<queue, hand, answer, poller>>
      BY <1>7, <2>3 DEF HistoryRead
    <3> QED
      BY <2>1, <3>1, PlacesStay DEF Unmoved
  <2> QED
    BY <2>2, <2>3
<1>8. ASSUME NEW o \in Ops, SkipReload(o) PROVE PlacesInv(m)'
  <2>1. ops'[o] = NoOp /\ OthersStay(o) /\ UNCHANGED <<queue, hand, answer, taken>>
    BY <1>8, OpEnds DEF SkipReload
  <2>2. m \in Lost(o) => poller'[m] # Home
    BY <1>8 DEF SkipReload
  <2>3. CASE ops[o].msg = m
    <3>1. m \in Lost(o)
      BY <2>3, ReplacementAssumption DEF Lost
    <3> QED
      BY <2>1, <2>2, <2>3, <3>1, PollPlaces
  <2>4. CASE ops[o].msg # m
    <3>1. poller'[m] = poller[m]
      BY <1>8, <2>4 DEF SkipReload, Poll, ReplaceTypes, TextTypes
    <3>2. m \in ops[o].snap => m \notin Lost(o)
      BY <2>2, <3>1 DEF PlacesInv, AloneInv, Moving, Polled, Copied
    <3>3. m \in ops[o].snap => Queued(m) \/ \E p \in Ops \ {o} : m \in ops[p].snap
      BY <3>2, LostIs
    <3> QED
      BY <2>1, <2>4, <3>1, <3>3, EndPlaces DEF Unmoved
  <2> QED
    BY <2>3, <2>4
<1>9. ASSUME NEW o \in Ops, RemoveOld(o) PROVE PlacesInv(m)'
  <2>1. Carries /\ taken' = taken
    BY <1>9, CarriesOn DEF RemoveOld, Places
  <2>2. CASE shown \in Instances /\ task[shown].alive
    <3>1. Abort(shown, queue[shown] \ Snapshots)
      BY <1>9, <2>2 DEF RemoveOld
    <3>2. m \in queue[shown] => Copied(m)
      BY <3>1 DEF Abort, Snapshots, Copied
    <3> QED
      BY <2>1, <2>2, <3>1, <3>2, AbortPlaces
  <2>3. CASE ~(shown \in Instances /\ task[shown].alive)
    <3>1. UNCHANGED <<queue, hand, answer, poller>>
      BY <1>9, <2>3 DEF RemoveOld
    <3> QED
      BY <2>1, <3>1, PlacesStay DEF Unmoved
  <2> QED
    BY <2>2, <2>3
<1>10. ASSUME NEW o \in Ops, CreateNew(o) PROVE PlacesInv(m)'
  <2>1. Carries
    BY <1>10, OpCreates DEF Carries, OthersStay
  <2> QED
    BY <1>10, <2>1, PlacesStay DEF CreateNew, Unmoved
<1>11. ASSUME NEW o \in Ops, RestoreQueue(o) PROVE PlacesInv(m)'
  <2>1. ops'[o] = NoOp /\ OthersStay(o) /\ UNCHANGED <<hand, answer, taken>>
    BY <1>11, OpEnds DEF RestoreQueue
  <2>2. ops[o].task \in Instances /\ ops[o].at = "restore"
    BY <1>11 DEF RestoreQueue, OpInv
  <2> DEFINE i == ops[o].task
             late == IF ~task[i].alive THEN Lost(o) ELSE IF Replacing(i) THEN ops[o].snap ELSE {}
  <2>3. \A j \in Instances : queue'[j] = IF j = i /\ task[i].alive THEN queue[j] \union ops[o].snap ELSE queue[j]
    BY <1>11, <2>2 DEF RestoreQueue, ReplaceTypes, TextTypes
  <2>4. /\ m \in late \/ m = ops[o].msg => poller'[m] # Home
        /\ m \in ops[o].snap => ~Queued(m)
    <3>1. m \notin (late \union ({ops[o].msg} \ {NoMsg})) \ {t \in Texts : poller'[t] # Home}
      BY <1>11 DEF RestoreQueue
    <3>2. m \notin ops[o].snap \cap UNION {queue[j] : j \in Instances}
      BY <1>11 DEF RestoreQueue
    <3> HIDE DEF late
    <3> QED
      BY <3>1, <3>2, ReplacementAssumption DEF Queued
  <2>5. CASE ops[o].msg = m
    BY <2>1, <2>3, <2>4, <2>5, PollPlaces
  <2>6. CASE ops[o].msg # m
    <3>1. poller'[m] = poller[m]
      BY <1>11, <2>6 DEF RestoreQueue, Poll, ReplaceTypes, TextTypes
    <3>2. CASE m \in ops[o].snap
      <4>1. ~Queued(m) /\ m \notin late /\ Copied(m)
        <5> HIDE DEF late
        <5>1. Copied(m)
          BY <3>2 DEF Copied
        <5> QED
          BY <2>4, <3>1, <3>2, <5>1 DEF PlacesInv, AloneInv, Moving, Polled
      <4>2. CASE ~task[i].alive
        <5>1. \E p \in Ops \ {o} : m \in ops[p].snap
          BY <3>2, <4>1, <4>2, LostIs
        <5> QED
          BY <2>1, <2>3, <2>6, <3>1, <4>2, <5>1, EndPlaces DEF Unmoved
      <4>3. CASE task[i].alive
        <5>1. ~Replacing(i)
          BY <3>2, <4>1, <4>3
        <5>2. \A j \in Instances : m \in queue'[j] <=> j = i
          <6> HIDE DEF i, late
          <6> QED
            BY <2>3, <3>2, <4>1, <4>3 DEF Queued, i
        <5> HIDE DEF late
        <5> QED
          BY <2>1, <2>2, <2>6, <3>1, <3>2, <4>1, <5>1, <5>2, RestorePlaces
      <4> QED
        BY <4>2, <4>3
    <3>3. CASE m \notin ops[o].snap
      BY <2>1, <2>3, <2>6, <3>1, <3>3, EndPlaces DEF Unmoved
    <3> QED
      BY <3>2, <3>3
  <2> QED
    BY <2>5, <2>6
<1>12. ASSUME NEW t \in Texts, CheckAndSend(t) PROVE PlacesInv(m)'
  <2>1. /\ poller[t] \in Instances /\ UNCHANGED <<queue, hand, ops, taken>>
        /\ answer'[poller[t]] = {t} /\ \A j \in Instances \ {poller[t]} : answer'[j] = answer[j]
        /\ poller'[t] = Home /\ (m # t => poller'[m] = poller[m]) /\ m \notin answer[poller[t]]
        /\ poller[t] # Home
    BY <1>12, PollerIs DEF CheckAndSend, Respond, ReplaceTypes, TextTypes
  <2>2. CASE t = m
    <3>1. Polled(m)
      BY <2>1, <2>2 DEF Polled
    <3>2. ~Queued(m) /\ ~Copied(m) /\ ~InHand(m) /\ ~Answered(m) /\ ~Forced(m) /\ taken[m] = 0
      BY <3>1 DEF PlacesInv, TakenInv, AloneInv, SomeWhere, Moving
    <3>3. \A j \in Instances : m \notin queue'[j] /\ m \notin hand'[j] /\ (m \in answer'[j] => j = poller[t])
      BY <2>1, <3>2 DEF Queued, InHand, Answered
    <3>4. ~Queued(m)' /\ ~Copied(m)' /\ ~InHand(m)' /\ Answered(m)' /\ ~Polled(m)' /\ ~Forced(m)'
      BY <2>1, <2>2, <3>2, <3>3 DEF Queued, Copied, InHand, Answered, Polled, Forced
    <3>5. TakenInv(m)' /\ AloneInv(m)'
      BY <2>1, <3>2, <3>4 DEF TakenInv, AloneInv, SomeWhere, Moving
    <3>6. OnceInv(m)' /\ CopyInv(m)'
      BY <2>1, <3>3, OpTasks DEF PlacesInv, OnceInv, CopyInv
    <3> QED
      BY <3>5, <3>6 DEF PlacesInv
  <2>3. CASE t # m
    BY <2>1, <2>3, PlacesStay DEF Unmoved, Carries
  <2> QED
    BY <2>2, <2>3
<1>13. ASSUME NEW t \in Texts, QueueMessage(t) PROVE PlacesInv(m)'
  <2>1. t # m /\ shown \in Instances /\ UNCHANGED <<answer, poller, taken>> /\ Carries
    BY <1>13 DEF QueueMessage, Carries
  <2>2. CASE UNCHANGED <<task, queue, hand>>
    BY <2>1, <2>2, PlacesStay DEF Unmoved
  <2>3. CASE queue' = [queue EXCEPT ![shown] = queue[shown] \union {t}] /\ UNCHANGED <<task, hand>>
    <3>1. \A j \in Instances : m \in queue'[j] <=> m \in queue[j]
      BY <2>1, <2>3 DEF ReplaceTypes
    <3> QED
      BY <2>1, <2>3, <3>1, PlacesStay DEF Unmoved
  <2>4. ASSUME NEW late, IsIdle(shown), Drain(shown, queue[shown] \union {t}, late) PROVE PlacesInv(m)'
    <3>1. hand[shown] = {}
      BY <2>1, <2>4 DEF IsIdle, RestInv
    <3>2. queue[shown] \union {t} \subseteq Texts /\ (m \in queue[shown] \union {t} <=> m \in queue[shown])
      BY <2>1, DrainsMore
    <3> QED
      BY <2>1, <2>4, <3>1, <3>2, DrainPlaces
  <2>5. \/ UNCHANGED <<task, queue, hand>>
        \/ queue' = [queue EXCEPT ![shown] = queue[shown] \union {t}] /\ UNCHANGED <<task, hand>>
        \/ \E late : IsIdle(shown) /\ Drain(shown, queue[shown] \union {t}, late)
    BY <1>13 DEF QueueMessage
  <2> QED
    BY <2>2, <2>3, <2>4, <2>5
<1>14. ASSUME NEW t \in Texts, AnswerPrompt(t) PROVE PlacesInv(m)'
  <2>1. /\ t # m /\ shown \in Instances /\ UNCHANGED <<queue, hand, poller, taken, ops>>
        /\ \A j \in Instances : m \in answer'[j] <=> m \in answer[j]
    BY <1>14 DEF AnswerPrompt, Respond, ReplaceTypes
  <2> QED
    BY <2>1, PlacesStay DEF Unmoved, Carries
<1>15. ASSUME NEW o \in Ops, Cancel(o) PROVE PlacesInv(m)'
  <2>1. /\ OthersStay(o) /\ ops[o] = NoOp /\ ops'[o].task = shown /\ ops'[o].snap = queue[shown] \ {NoMsg}
        /\ ops'[o].msg = NoMsg /\ shown \in Instances
    BY <1>15, OpBegins DEF Cancel, BeginCancel
  <2>2. NoMsg # m /\ UNCHANGED <<queue, hand, answer, poller, taken>>
    BY <1>15, ReplacementAssumption DEF Cancel
  <2> QED
    BY <2>1, <2>2, CopyPlaces DEF Unmoved
<1>16. ASSUME NEW o \in Ops, ReadFails(o) PROVE PlacesInv(m)'
  <2>1. ops'[o] = NoOp /\ OthersStay(o) /\ UNCHANGED <<queue, hand, answer, poller, taken>>
    BY <1>16, OpEnds DEF ReadFails
  <2>2. ops[o].task \in Instances /\ (m \in Lost(o) => m \in queue[ops[o].task])
    BY <1>16, OpTasks DEF ReadFails
  <2>3. ops[o].msg # m
    <3> SUFFICES ASSUME ops[o].msg = m PROVE FALSE
      OBVIOUS
    <3>1. Forced(m) /\ Queued(m)
      BY <2>2, ReplacementAssumption DEF Forced, Queued, Lost
    <3> QED
      BY <3>1 DEF PlacesInv, AloneInv, Moving
  <2>4. m \in ops[o].snap => Queued(m) \/ \E p \in Ops \ {o} : m \in ops[p].snap
    BY <2>2, LostIs DEF Queued
  <2> QED
    BY <2>1, <2>3, <2>4, EndPlaces DEF Unmoved
<1>17. ASSUME NEW o \in Ops, NEW t \in Texts, ForceSend(o, t) PROVE PlacesInv(m)'
  <2>1. /\ OthersStay(o) /\ ops[o] = NoOp /\ ops'[o].task = shown /\ ops'[o].snap = queue[shown] \ {t}
        /\ ops'[o].msg = t /\ shown \in Instances
    BY <1>17, OpBegins DEF ForceSend, BeginCancel
  <2>2. /\ UNCHANGED <<hand, answer, poller, taken>> /\ (t = m => m \in queue[shown] /\ m \notin Snapshots)
        /\ \A j \in Instances : m \in queue'[j] <=> m \in queue[j] /\ ~(j = shown /\ t = m)
    BY <1>17, <2>1 DEF ForceSend, ReplaceTypes, TextTypes
  <2>3. CASE t = m
    <3>1. Queued(m) /\ ~Copied(m)
      BY <2>1, <2>2, <2>3 DEF Queued, Snapshots, Copied
    <3>2. ~InHand(m) /\ ~Answered(m) /\ ~Polled(m) /\ ~Forced(m) /\ taken[m] = 0
      BY <3>1 DEF PlacesInv, TakenInv, AloneInv, SomeWhere, Moving
    <3>3. \A j \in Instances : m \notin queue'[j] /\ m \notin hand[j] /\ m \notin answer[j]
      BY <2>1, <2>2, <2>3, <3>2 DEF PlacesInv, OnceInv, InHand, Answered
    <3>4. \A p \in Ops : m \notin ops'[p].snap /\ (ops'[p].msg = m <=> p = o)
      BY <2>1, <2>3, <3>1, <3>2 DEF OthersStay, Copied, Forced
    <3>5. ~Queued(m)' /\ ~Copied(m)' /\ ~InHand(m)' /\ ~Answered(m)' /\ ~Polled(m)' /\ Forced(m)'
      BY <2>2, <3>2, <3>3, <3>4 DEF Queued, Copied, InHand, Answered, Polled, Forced
    <3>6. TakenInv(m)' /\ AloneInv(m)'
      BY <2>2, <3>2, <3>5 DEF TakenInv, AloneInv, SomeWhere, Moving
    <3>7. OnceInv(m)'
      BY <2>2, <3>3, <3>4 DEF OnceInv
    <3>8. CopyInv(m)'
      <4> SUFFICES ASSUME NEW p \in Ops, ops'[p].kind = "cancel", ops'[p].at = "read", m \in queue'[ops'[p].task]
                   PROVE  FALSE
        BY DEF CopyInv
      <4>1. ops'[p].task \in Instances
        BY <2>1, OpTasks DEF OthersStay
      <4> QED
        BY <3>3, <4>1
    <3> QED
      BY <3>6, <3>7, <3>8 DEF PlacesInv
  <2>4. CASE t # m
    BY <2>1, <2>2, <2>4, CopyPlaces DEF Unmoved
  <2> QED
    BY <2>3, <2>4
<1>18. CASE LeaveTask
  BY <1>18, PlacesStay DEF LeaveTask, Carries, Unmoved
<1>19. CASE ReturnToTask
  BY <1>19, PlacesStay DEF ReturnToTask, Carries, Unmoved
<1> QED
  BY <1>1, <1>2, <1>3, <1>4, <1>5, <1>6, <1>7, <1>8, <1>9, <1>10, <1>11, <1>12, <1>13, <1>14,
     <1>15, <1>16, <1>17, <1>18, <1>19
     DEF ReplaceNext, ReplaceHost

----------------------------------------------------------------------------
(* Messages that are not sent yet, and those that arrive                   *)

\* A message that is nowhere.
NoPlace(m) == /\ \A j \in Instances : m \notin queue[j] /\ m \notin hand[j] /\ m \notin answer[j]
              /\ \A o \in Ops : m \notin ops[o].snap /\ ops[o].msg # m
              /\ poller[m] = Home

\* The two ways to say it.
LEMMA NoPlaceIs == ASSUME NEW m PROVE NoPlace(m) <=> ~SomeWhere(m)
BY DEF NoPlace, SomeWhere, Moving, Queued, Copied, InHand, Answered, Polled, Forced

\* What was not sent is nowhere.
LEMMA SentStep ==
    ASSUME ReplaceTypes, OpInv, NEW m \in Texts, m \notin sent', NoPlace(m),
           taken[m] = 0, [ReplaceNext]_replaceVars
    PROVE  NoPlace(m)' /\ taken'[m] = 0
<1>1. CASE UNCHANGED replaceVars
  BY <1>1 DEF NoPlace, replaceVars
<1>2. ASSUME NEW k \in Instances, Loaded(k) PROVE NoPlace(m)' /\ taken'[m] = 0
  <2>1. \A j \in Instances : m \notin queue'[j] /\ m \notin hand'[j] /\ m \notin answer'[j]
    BY <1>2 DEF NoPlace, ReplaceTypes, Loaded
  <2>2. poller'[m] = Home /\ taken'[m] = 0
    BY <1>2 DEF NoPlace, ReplaceTypes, Loaded
  <2>3. \A p \in Ops : m \notin ops'[p].snap /\ ops'[p].msg # m
    BY <1>2 DEF Loaded, NoPlace
  <2> QED
    BY <2>1, <2>2, <2>3 DEF NoPlace
<1>3. ASSUME NEW k \in Instances, PromptReturns(k) PROVE NoPlace(m)' /\ taken'[m] = 0
  <2>1. \A j \in Instances : m \notin queue'[j] /\ m \notin hand'[j] /\ m \notin answer'[j]
    BY <1>3 DEF NoPlace, ReplaceTypes, TextTypes, PromptReturns
  <2>2. poller'[m] = Home /\ taken'[m] = 0
    BY <1>3 DEF NoPlace, ReplaceTypes, PromptReturns, Take
  <2>3. \A p \in Ops : m \notin ops'[p].snap /\ ops'[p].msg # m
    BY <1>3 DEF PromptReturns, NoPlace
  <2> QED
    BY <2>1, <2>2, <2>3 DEF NoPlace
<1>4. ASSUME NEW k \in Instances, Submitted(k) PROVE NoPlace(m)' /\ taken'[m] = 0
  <2>1. \A j \in Instances : m \notin queue'[j] /\ m \notin hand'[j] /\ m \notin answer'[j]
    BY <1>4 DEF NoPlace, ReplaceTypes, Submitted
  <2>2. poller'[m] = Home /\ taken'[m] = 0
    BY <1>4 DEF NoPlace, ReplaceTypes, Submitted, Take
  <2>3. \A p \in Ops : m \notin ops'[p].snap /\ ops'[p].msg # m
    BY <1>4 DEF Submitted, NoPlace
  <2> QED
    BY <2>1, <2>2, <2>3 DEF NoPlace
<1>5. ASSUME NEW k \in Instances, TurnEnds(k) PROVE NoPlace(m)' /\ taken'[m] = 0
  <2>1. \A j \in Instances : m \notin queue'[j] /\ m \notin hand'[j] /\ m \notin answer'[j]
    BY <1>5 DEF NoPlace, ReplaceTypes, TextTypes, TurnEnds, Drain
  <2>2. poller'[m] = Home /\ taken'[m] = 0
    BY <1>5 DEF NoPlace, ReplaceTypes, TurnEnds
  <2>3. \A p \in Ops : m \notin ops'[p].snap /\ ops'[p].msg # m
    BY <1>5 DEF TurnEnds, NoPlace
  <2> QED
    BY <2>1, <2>2, <2>3 DEF NoPlace
<1>6. ASSUME NEW o \in Ops, NEW k \in Instances, StreamFails(o, k) PROVE NoPlace(m)' /\ taken'[m] = 0
  <2>1. \A j \in Instances : m \notin queue'[j] /\ m \notin hand'[j] /\ m \notin answer'[j]
    BY <1>6 DEF NoPlace, ReplaceTypes, StreamFails
  <2>2. poller'[m] = Home /\ taken'[m] = 0
    BY <1>6 DEF NoPlace, ReplaceTypes, StreamFails
  <2>3. \A p \in Ops : m \notin ops'[p].snap /\ ops'[p].msg # m
    BY <1>6, OpFails, ReplacementAssumption DEF OthersStay, NoPlace
  <2> QED
    BY <2>1, <2>2, <2>3 DEF NoPlace
<1>7. ASSUME NEW o \in Ops, HistoryRead(o) PROVE NoPlace(m)' /\ taken'[m] = 0
  <2>0. ops[o].task \in Instances
    BY <1>7 DEF HistoryRead, OpInv
  <2>1. \A j \in Instances : m \notin queue'[j] /\ m \notin hand'[j] /\ m \notin answer'[j]
    BY <1>7, <2>0 DEF NoPlace, ReplaceTypes, TextTypes, HistoryRead, Abort
  <2>2. poller'[m] = Home /\ taken'[m] = 0
    BY <1>7, <2>0 DEF NoPlace, ReplaceTypes, HistoryRead, Abort
  <2>3. \A p \in Ops : m \notin ops'[p].snap /\ ops'[p].msg # m
    BY <1>7 DEF HistoryRead, NoPlace
  <2> QED
    BY <2>1, <2>2, <2>3 DEF NoPlace
<1>8. ASSUME NEW o \in Ops, SkipReload(o) PROVE NoPlace(m)' /\ taken'[m] = 0
  <2>1. \A j \in Instances : m \notin queue'[j] /\ m \notin hand'[j] /\ m \notin answer'[j]
    BY <1>8 DEF NoPlace, ReplaceTypes, SkipReload
  <2>2. poller'[m] = Home /\ taken'[m] = 0
    BY <1>8 DEF NoPlace, ReplaceTypes, TextTypes, SkipReload, Poll
  <2>3. \A p \in Ops : m \notin ops'[p].snap /\ ops'[p].msg # m
    BY <1>8, NoOpIs, ReplacementAssumption DEF SkipReload, NoPlace
  <2> QED
    BY <2>1, <2>2, <2>3 DEF NoPlace
<1>9. ASSUME NEW o \in Ops, RemoveOld(o) PROVE NoPlace(m)' /\ taken'[m] = 0
  <2>1. \A j \in Instances : m \notin queue'[j] /\ m \notin hand'[j] /\ m \notin answer'[j]
    BY <1>9 DEF NoPlace, ReplaceTypes, TextTypes, RemoveOld, Abort
  <2>2. poller'[m] = Home /\ taken'[m] = 0
    BY <1>9 DEF NoPlace, ReplaceTypes, RemoveOld, Abort
  <2>3. \A p \in Ops : m \notin ops'[p].snap /\ ops'[p].msg # m
    BY <1>9 DEF RemoveOld, NoPlace
  <2> QED
    BY <2>1, <2>2, <2>3 DEF NoPlace
<1>10. ASSUME NEW o \in Ops, CreateNew(o) PROVE NoPlace(m)' /\ taken'[m] = 0
  <2>1. \A j \in Instances : m \notin queue'[j] /\ m \notin hand'[j] /\ m \notin answer'[j]
    BY <1>10 DEF NoPlace, ReplaceTypes, CreateNew
  <2>2. poller'[m] = Home /\ taken'[m] = 0
    BY <1>10 DEF NoPlace, ReplaceTypes, CreateNew
  <2>3. \A p \in Ops : m \notin ops'[p].snap /\ ops'[p].msg # m
    BY <1>10, OpCreates DEF OthersStay, NoPlace
  <2> QED
    BY <2>1, <2>2, <2>3 DEF NoPlace
<1>11. ASSUME NEW o \in Ops, RestoreQueue(o) PROVE NoPlace(m)' /\ taken'[m] = 0
  <2>1. \A j \in Instances : m \notin queue'[j] /\ m \notin hand'[j] /\ m \notin answer'[j]
    BY <1>11 DEF NoPlace, ReplaceTypes, RestoreQueue
  <2>2. poller'[m] = Home /\ taken'[m] = 0
    BY <1>11 DEF NoPlace, ReplaceTypes, TextTypes, RestoreQueue, Poll
  <2>3. \A p \in Ops : m \notin ops'[p].snap /\ ops'[p].msg # m
    BY <1>11, NoOpIs, ReplacementAssumption DEF RestoreQueue, NoPlace
  <2> QED
    BY <2>1, <2>2, <2>3 DEF NoPlace
<1>12. ASSUME NEW t \in Texts, CheckAndSend(t) PROVE NoPlace(m)' /\ taken'[m] = 0
  <2>0. poller[t] \in Instances
    BY <1>12, PollerIs DEF CheckAndSend
  <2>1. \A j \in Instances : m \notin queue'[j] /\ m \notin hand'[j] /\ m \notin answer'[j]
    BY <1>12, <2>0 DEF NoPlace, ReplaceTypes, CheckAndSend, Respond
  <2>2. poller'[m] = Home /\ taken'[m] = 0
    BY <1>12, <2>0 DEF NoPlace, ReplaceTypes, CheckAndSend
  <2>3. \A p \in Ops : m \notin ops'[p].snap /\ ops'[p].msg # m
    BY <1>12 DEF CheckAndSend, NoPlace
  <2> QED
    BY <2>1, <2>2, <2>3 DEF NoPlace
<1>13. ASSUME NEW t \in Texts, QueueMessage(t) PROVE NoPlace(m)' /\ taken'[m] = 0
  <2>0. t # m /\ shown \in Instances
    BY <1>13 DEF QueueMessage
  <2>1. \A j \in Instances : m \notin queue'[j] /\ m \notin hand'[j] /\ m \notin answer'[j]
    BY <1>13, <2>0 DEF NoPlace, ReplaceTypes, TextTypes, QueueMessage, Drain
  <2>2. poller'[m] = Home /\ taken'[m] = 0
    BY <1>13, <2>0 DEF NoPlace, ReplaceTypes, QueueMessage
  <2>3. \A p \in Ops : m \notin ops'[p].snap /\ ops'[p].msg # m
    BY <1>13 DEF QueueMessage, NoPlace
  <2> QED
    BY <2>1, <2>2, <2>3 DEF NoPlace
<1>14. ASSUME NEW t \in Texts, AnswerPrompt(t) PROVE NoPlace(m)' /\ taken'[m] = 0
  <2>0. t # m /\ shown \in Instances
    BY <1>14 DEF AnswerPrompt
  <2>1. \A j \in Instances : m \notin queue'[j] /\ m \notin hand'[j] /\ m \notin answer'[j]
    BY <1>14, <2>0 DEF NoPlace, ReplaceTypes, AnswerPrompt, Respond
  <2>2. poller'[m] = Home /\ taken'[m] = 0
    BY <1>14, <2>0 DEF NoPlace, ReplaceTypes, AnswerPrompt
  <2>3. \A p \in Ops : m \notin ops'[p].snap /\ ops'[p].msg # m
    BY <1>14 DEF AnswerPrompt, NoPlace
  <2> QED
    BY <2>1, <2>2, <2>3 DEF NoPlace
<1>15. ASSUME NEW o \in Ops, Cancel(o) PROVE NoPlace(m)' /\ taken'[m] = 0
  <2>1. \A j \in Instances : m \notin queue'[j] /\ m \notin hand'[j] /\ m \notin answer'[j]
    BY <1>15 DEF NoPlace, ReplaceTypes, Cancel
  <2>2. poller'[m] = Home /\ taken'[m] = 0
    BY <1>15 DEF NoPlace, ReplaceTypes, Cancel
  <2>3. \A p \in Ops : m \notin ops'[p].snap /\ ops'[p].msg # m
    BY <1>15, OpBegins, ReplacementAssumption DEF Cancel, BeginCancel, NoPlace
  <2> QED
    BY <2>1, <2>2, <2>3 DEF NoPlace
<1>16. ASSUME NEW o \in Ops, ReadFails(o) PROVE NoPlace(m)' /\ taken'[m] = 0
  <2>1. \A j \in Instances : m \notin queue'[j] /\ m \notin hand'[j] /\ m \notin answer'[j]
    BY <1>16 DEF NoPlace, ReplaceTypes, ReadFails
  <2>2. poller'[m] = Home /\ taken'[m] = 0
    BY <1>16 DEF NoPlace, ReplaceTypes, ReadFails
  <2>3. \A p \in Ops : m \notin ops'[p].snap /\ ops'[p].msg # m
    BY <1>16, NoOpIs, ReplacementAssumption DEF ReadFails, NoPlace
  <2> QED
    BY <2>1, <2>2, <2>3 DEF NoPlace
<1>17. ASSUME NEW o \in Ops, NEW t \in Texts, ForceSend(o, t) PROVE NoPlace(m)' /\ taken'[m] = 0
  <2>1. t # m /\ shown \in Instances /\ UNCHANGED <<hand, answer, poller, taken>>
    BY <1>17 DEF ForceSend, BeginCancel, NoPlace
  <2>2. \A j \in Instances : m \notin queue'[j]
    BY <1>17 DEF ForceSend, NoPlace, ReplaceTypes
  <2>3. \A p \in Ops : m \notin ops'[p].snap /\ ops'[p].msg # m
    BY <1>17, <2>1, OpBegins DEF ForceSend, OthersStay, NoPlace
  <2> QED
    BY <2>1, <2>2, <2>3 DEF NoPlace
<1>18. CASE LeaveTask
  <2>1. \A j \in Instances : m \notin queue'[j] /\ m \notin hand'[j] /\ m \notin answer'[j]
    BY <1>18 DEF NoPlace, ReplaceTypes, LeaveTask
  <2>2. poller'[m] = Home /\ taken'[m] = 0
    BY <1>18 DEF NoPlace, ReplaceTypes, LeaveTask
  <2>3. \A p \in Ops : m \notin ops'[p].snap /\ ops'[p].msg # m
    BY <1>18 DEF LeaveTask, NoPlace
  <2> QED
    BY <2>1, <2>2, <2>3 DEF NoPlace
<1>19. CASE ReturnToTask
  <2>1. \A j \in Instances : m \notin queue'[j] /\ m \notin hand'[j] /\ m \notin answer'[j]
    BY <1>19 DEF NoPlace, ReplaceTypes, ReturnToTask
  <2>2. poller'[m] = Home /\ taken'[m] = 0
    BY <1>19 DEF NoPlace, ReplaceTypes, ReturnToTask
  <2>3. \A p \in Ops : m \notin ops'[p].snap /\ ops'[p].msg # m
    BY <1>19 DEF ReturnToTask, NoPlace
  <2> QED
    BY <2>1, <2>2, <2>3 DEF NoPlace
<1> QED
  BY <1>1, <1>2, <1>3, <1>4, <1>5, <1>6, <1>7, <1>8, <1>9, <1>10, <1>11, <1>12, <1>13, <1>14,
     <1>15, <1>16, <1>17, <1>18, <1>19
     DEF ReplaceNext, ReplaceHost

\* What is sent stays sent, and a gap stays a gap.
Grows(m) == /\ m \in gaps => m \in gaps'
            /\ m \in sent => m \in sent'
            /\ m \in sent' => m \in sent \/ QueueMessage(m) \/ AnswerPrompt(m)

LEMMA SentBy ==
    ASSUME NEW m, [ReplaceNext]_replaceVars
    PROVE  Grows(m)
<1>1. CASE UNCHANGED replaceVars
  BY <1>1 DEF Grows, replaceVars
<1>2. ASSUME NEW k \in Instances, Loaded(k) PROVE Grows(m)
  BY <1>2 DEF Grows, Loaded
<1>3. ASSUME NEW k \in Instances, PromptReturns(k) PROVE Grows(m)
  BY <1>3 DEF Grows, PromptReturns, Take
<1>4. ASSUME NEW k \in Instances, Submitted(k) PROVE Grows(m)
  BY <1>4 DEF Grows, Submitted, Take
<1>5. ASSUME NEW k \in Instances, TurnEnds(k) PROVE Grows(m)
  BY <1>5 DEF Grows, TurnEnds, Drain
<1>6. ASSUME NEW o \in Ops, NEW k \in Instances, StreamFails(o, k) PROVE Grows(m)
  BY <1>6 DEF Grows, StreamFails
<1>7. ASSUME NEW o \in Ops, HistoryRead(o) PROVE Grows(m)
  BY <1>7 DEF Grows, HistoryRead, Abort
<1>8. ASSUME NEW o \in Ops, SkipReload(o) PROVE Grows(m)
  BY <1>8 DEF Grows, SkipReload, Poll
<1>9. ASSUME NEW o \in Ops, RemoveOld(o) PROVE Grows(m)
  BY <1>9 DEF Grows, RemoveOld, Abort
<1>10. ASSUME NEW o \in Ops, CreateNew(o) PROVE Grows(m)
  BY <1>10 DEF Grows, CreateNew
<1>11. ASSUME NEW o \in Ops, RestoreQueue(o) PROVE Grows(m)
  BY <1>11 DEF Grows, RestoreQueue, Poll
<1>12. ASSUME NEW t \in Texts, CheckAndSend(t) PROVE Grows(m)
  BY <1>12 DEF Grows, CheckAndSend, Respond
<1>13. ASSUME NEW t \in Texts, QueueMessage(t) PROVE Grows(m)
  BY <1>13 DEF Grows, QueueMessage, Drain
<1>14. ASSUME NEW t \in Texts, AnswerPrompt(t) PROVE Grows(m)
  BY <1>14 DEF Grows, AnswerPrompt, Respond
<1>15. ASSUME NEW o \in Ops, Cancel(o) PROVE Grows(m)
  BY <1>15 DEF Grows, Cancel, BeginCancel
<1>16. ASSUME NEW o \in Ops, ReadFails(o) PROVE Grows(m)
  BY <1>16 DEF Grows, ReadFails
<1>17. ASSUME NEW o \in Ops, NEW t \in Texts, ForceSend(o, t) PROVE Grows(m)
  BY <1>17 DEF Grows, ForceSend, BeginCancel
<1>18. CASE LeaveTask
  BY <1>18 DEF Grows, LeaveTask
<1>19. CASE ReturnToTask
  BY <1>19 DEF Grows, ReturnToTask
<1> QED
  BY <1>1, <1>2, <1>3, <1>4, <1>5, <1>6, <1>7, <1>8, <1>9, <1>10, <1>11, <1>12, <1>13, <1>14,
     <1>15, <1>16, <1>17, <1>18, <1>19
     DEF ReplaceNext, ReplaceHost

\* A message that is typed and meets no gap.
LEMMA QueueIs ==
    ASSUME NEW m \in Texts, QueueMessage(m), m \notin gaps'
    PROVE  /\ task[shown].alive /\ ~Replacing(shown) /\ answer' = answer
           /\ \/ queue' = [queue EXCEPT ![shown] = queue[shown] \union {m}] /\ UNCHANGED hand
              \/ \E late : IsIdle(shown) /\ Drain(shown, queue[shown] \union {m}, late)
<1> DEFINE late == IF ~task[shown].alive \/ Replacing(shown) THEN {m} ELSE {}
<1>1. gaps \union late \subseteq gaps'
  BY DEF QueueMessage, Drain
<1>2. task[shown].alive /\ ~Replacing(shown)
  BY <1>1
<1> QED
  BY <1>2 DEF QueueMessage

\* A message that the user sends now.
LEMMA ArrivesStep ==
    ASSUME ReplaceTypes, OpInv, \A j \in Instances : RestInv(j), NEW m \in Texts, NoPlace(m),
           taken[m] = 0, m \notin gaps', QueueMessage(m) \/ AnswerPrompt(m)
    PROVE  PlacesInv(m)'
<1>1. shown \in Instances /\ UNCHANGED <<ops, poller, taken>>
  BY DEF QueueMessage, AnswerPrompt
<1>2. ASSUME NEW i \in Instances, \A j \in Instances : m \in queue'[j] <=> j = i,
             \A j \in Instances : m \notin hand'[j] /\ m \notin answer'[j], ~Replacing(i)
      PROVE  PlacesInv(m)'
  <2>1. Queued(m)' /\ ~Copied(m)' /\ ~InHand(m)' /\ ~Answered(m)' /\ ~Polled(m)' /\ ~Forced(m)'
    BY <1>1, <1>2 DEF NoPlace, Queued, Copied, InHand, Answered, Polled, Forced
  <2>2. TakenInv(m)' /\ AloneInv(m)'
    BY <1>1, <2>1 DEF TakenInv, AloneInv, SomeWhere, Moving
  <2>3. OnceInv(m)'
    BY <1>1, <1>2 DEF OnceInv, NoPlace
  <2>4. CopyInv(m)'
    BY <1>1, <1>2, OpTasks DEF CopyInv, Replacing
  <2> QED
    BY <2>2, <2>3, <2>4 DEF PlacesInv
<1>3. ASSUME NEW i \in Instances, \A j \in Instances : m \notin queue'[j],
             \/ /\ \A j \in Instances : m \in hand'[j] <=> j = i
                /\ \A j \in Instances : m \notin answer'[j]
             \/ /\ \A j \in Instances : m \in answer'[j] <=> j = i
                /\ \A j \in Instances : m \notin hand'[j]
      PROVE  PlacesInv(m)'
  <2>1. /\ ~Queued(m)' /\ ~Copied(m)' /\ ~Polled(m)' /\ ~Forced(m)'
        /\ (InHand(m)' /\ ~Answered(m)') \/ (~InHand(m)' /\ Answered(m)')
    BY <1>1, <1>3 DEF NoPlace, Queued, Copied, InHand, Answered, Polled, Forced
  <2>2. TakenInv(m)' /\ AloneInv(m)'
    BY <1>1, <2>1 DEF TakenInv, AloneInv, SomeWhere, Moving
  <2>3. OnceInv(m)' /\ CopyInv(m)'
    BY <1>1, <1>3, OpTasks DEF OnceInv, CopyInv, NoPlace
  <2> QED
    BY <2>2, <2>3 DEF PlacesInv
<1>4. CASE AnswerPrompt(m)
  <2>1. (\A j \in Instances : m \notin queue'[j] /\ m \notin hand'[j]) /\ \A j \in Instances : m \in answer'[j] <=> j = shown
    BY <1>4 DEF AnswerPrompt, Respond, NoPlace, ReplaceTypes, TextTypes
  <2> QED
    BY <1>1, <1>3, <2>1
<1>5. CASE QueueMessage(m)
  <2>1. task[shown].alive /\ ~Replacing(shown) /\ answer' = answer
    BY <1>5, QueueIs
  <2>2. CASE queue' = [queue EXCEPT ![shown] = queue[shown] \union {m}] /\ UNCHANGED hand
    <3>1. (\A j \in Instances : m \in queue'[j] <=> j = shown) /\ \A j \in Instances : m \notin hand'[j] /\ m \notin answer'[j]
      BY <1>1, <2>1, <2>2 DEF NoPlace, ReplaceTypes, TextTypes
    <3> QED
      BY <1>1, <1>2, <2>1, <3>1
  <2>3. ASSUME NEW late, IsIdle(shown), Drain(shown, queue[shown] \union {m}, late) PROVE PlacesInv(m)'
    <3>1. PICK t \in queue[shown] \union {m} : Drained(shown, queue[shown] \union {m}, late, t)
      BY <1>1, <2>3, DrainIs, DrainsMore
    <3>2. \A j \in Instances : m \notin answer'[j]
      BY <2>1 DEF NoPlace
    <3>3. CASE t = m
      <4>1. \A j \in Instances : m \notin queue'[j] /\ (m \in hand'[j] <=> j = shown)
        BY <1>1, <3>1, <3>3 DEF Drained, NoPlace
      <4> QED
        BY <1>1, <1>3, <3>2, <4>1
    <3>4. CASE t # m
      <4>1. \A j \in Instances : (m \in queue'[j] <=> j = shown) /\ m \notin hand'[j]
        BY <1>1, <3>1, <3>4 DEF Drained, NoPlace
      <4> QED
        BY <1>1, <1>2, <2>1, <3>2, <4>1
    <3> QED
      BY <3>3, <3>4
  <2> QED
    BY <1>5, <2>2, <2>3, QueueIs
<1> QED
  BY <1>4, <1>5

----------------------------------------------------------------------------
(* The theorems                                                            *)

\* The types in parts are the type invariant.
LEMMA TypesAre == ReplaceTypes <=> ReplacementTypeOK
BY DEF ReplaceTypes, TextTypes, ShownTypes, ReplacementTypeOK, TaskRecord, Operation, Places

\* The invariant holds at first, and each step keeps it.
LEMMA ReplaceStart == ReplaceInit => ReplaceInv
<1> SUFFICES ASSUME ReplaceInit PROVE ReplaceInv
  OBVIOUS
<1>1. 1 \in Instances /\ Home \in 0..MaxInstances /\ Home # 1
  BY ReplacementAssumption DEF Instances, Home
<1>2. ReplaceTypes
  <2>1. TextTypes
    BY <1>1 DEF ReplaceInit, TextTypes
  <2>2. ShownTypes
    BY <1>1, ReplacementAssumption DEF ReplaceInit, ShownTypes, Other
  <2>3. task \in [Instances -> TaskRecord]
    BY DEF ReplaceInit, TaskRecord, Unborn
  <2>4. ops \in [Ops -> Operation]
    BY NoOpIs DEF ReplaceInit
  <2> QED
    BY <2>1, <2>2, <2>3, <2>4 DEF ReplaceTypes
<1>3. OpInv
  BY NoOpIs DEF ReplaceInit, OpInv
<1>4. \A i \in Instances : RestInv(i)
  <2> SUFFICES ASSUME NEW i \in Instances PROVE RestInv(i)
    OBVIOUS
  <2>1. queue[i] = {} /\ hand[i] = {} /\ answer[i] = {} /\ \A m \in Texts : poller[m] # i
    BY HomeIs DEF ReplaceInit
  <2>2. i > used => ~task[i].alive
    BY DEF ReplaceInit, Unborn
  <2> QED
    BY <2>1, <2>2 DEF RestInv
<1>5. SentInv
  <2>1. \A m \in Texts : NoPlace(m) /\ taken[m] = 0
    BY NoOpIs, ReplacementAssumption DEF ReplaceInit, NoPlace
  <2> QED
    BY <2>1, NoPlaceIs DEF SentInv
<1>6. \A m \in sent \ gaps : PlacesInv(m)
  BY DEF ReplaceInit
<1> QED
  BY <1>2, <1>3, <1>4, <1>5, <1>6 DEF ReplaceInv

LEMMA ReplaceStep == ReplaceInv /\ [ReplaceNext]_replaceVars => ReplaceInv'
<1> SUFFICES ASSUME ReplaceInv, [ReplaceNext]_replaceVars PROVE ReplaceInv'
  OBVIOUS
<1>0. ReplaceTypes /\ OpInv /\ SentInv /\ \A i \in Instances : RestInv(i)
  BY DEF ReplaceInv
<1>1. ReplaceTypes'
  BY <1>0, TextStep, ShownStep, TaskStep, OpStep DEF ReplaceTypes
<1>2. OpInv' /\ \A i \in Instances : RestInv(i)'
  BY <1>0, OpInvStep, RestStep
<1>3. SentInv'
  <2> SUFFICES ASSUME NEW m \in Texts, m \notin sent' PROVE ~SomeWhere(m)' /\ taken'[m] = 0
    BY DEF SentInv
  <2>1. NoPlace(m) /\ taken[m] = 0
    BY <1>0, SentBy, NoPlaceIs DEF SentInv, Grows
  <2>2. NoPlace(m)' /\ taken'[m] = 0
    BY <1>0, <2>1, SentStep
  <2> QED
    BY <2>2 DEF NoPlace, SomeWhere, Moving, Queued, Copied, InHand, Answered, Polled, Forced
<1>4. ASSUME NEW m \in sent', m \notin gaps' PROVE PlacesInv(m)'
  <2>1. m \in Texts
    BY <1>1, <1>4 DEF ReplaceTypes, TextTypes
  <2>2. m \notin gaps
    BY <1>4, SentBy DEF Grows
  <2>3. CASE m \in sent
    <3>1. PlacesInv(m)
      BY <2>2, <2>3 DEF ReplaceInv
    <3> QED
      BY <1>0, <1>4, <2>1, <2>3, <3>1, PlacesStep
  <2>4. CASE m \notin sent
    <3>1. NoPlace(m) /\ taken[m] = 0
      BY <1>0, <2>1, <2>4, NoPlaceIs DEF SentInv
    <3>2. QueueMessage(m) \/ AnswerPrompt(m)
      BY <1>4, <2>4, SentBy DEF Grows
    <3> QED
      BY <1>0, <1>4, <2>1, <3>1, <3>2, ArrivesStep
  <2> QED
    BY <2>3, <2>4
<1> QED
  BY <1>1, <1>2, <1>3, <1>4 DEF ReplaceInv

LEMMA ReplaceInvariant == ReplaceSpec => []ReplaceInv
BY ReplaceStart, ReplaceStep, PTL DEF ReplaceSpec

\* The type invariant, for any messages, operations, instances and clicks.
THEOREM ReplacementTypes == ReplaceSpec => []ReplacementTypeOK
<1>1. ReplaceInv => ReplacementTypeOK
  BY TypesAre DEF ReplaceInv
<1> QED
  BY <1>1, ReplaceInvariant, PTL

\* However cancellations, forced messages and failed streams of a task overlap,
\* a message comes into the conversation once, or something still holds it, unless
\* it met a gap (cancelTask, onTaskAborted and restoreMessages).
THEOREM MessagesSurvive == ReplaceSpec => []TakenOnce
<1>1. ReplaceInv => TakenOnce
  <2> SUFFICES ASSUME ReplaceInv, NEW m \in sent \ gaps PROVE taken[m] <= 1 /\ (taken[m] = 0 => Held(m))
    BY DEF TakenOnce
  <2>1. PlacesInv(m) /\ m \in Texts /\ ReplaceTypes /\ \A i \in Instances : RestInv(i)
    BY DEF ReplaceInv, ReplaceTypes, TextTypes
  <2>2. ASSUME SomeWhere(m) PROVE Held(m)
    <3>1. CASE \E i \in Instances : m \in queue[i] \union hand[i] \union answer[i] \/ poller[m] = i
      BY <2>1, <3>1 DEF RestInv, Held
    <3>2. CASE ~\E i \in Instances : m \in queue[i] \union hand[i] \union answer[i] \/ poller[m] = i
      <4>1. ~Queued(m) /\ ~InHand(m) /\ ~Answered(m) /\ ~Polled(m)
        BY <2>1, <3>2, PollerIs DEF Queued, InHand, Answered, Polled
      <4>2. Copied(m) \/ Forced(m)
        BY <2>2, <4>1 DEF SomeWhere, Moving
      <4> QED
        BY <4>2 DEF Copied, Forced, Held
    <3> QED
      BY <3>1, <3>2
  <2> QED
    BY <2>1, <2>2 DEF PlacesInv, TakenInv
<1> QED
  BY <1>1, ReplaceInvariant, PTL

----------------------------------------------------------------------------
(* The history file                                                        *)

Born(i) == inst[i] # "unborn"
IsNewest(n) == Born(n) /\ \A i \in Insts : i > n => ~Born(i)

\* Before an instance has read the file it has its first array, then the next.
Reading == {"exists", "read", "overwrite"}
StageInv == /\ \E n \in Insts : IsNewest(n)
            /\ \A i \in Insts : /\ inst[i] \in Reading \union {"unborn"} => cur[i] = 0
                                /\ inst[i] = "reread" => cur[i] = 1

\* Only the newest instance is in sight, in one place; the others are aborted.
PlaceInv == /\ {screen, tab} \subseteq {0, Newest}
            /\ screen = 0 \/ tab = 0
            /\ \A i \in Insts : Born(i) => i \in aborted \union {screen, tab}
            /\ op \in {"cancel", "replace"} => item
            /\ op = "cancel" => screen # 0
            /\ op = "replace" => screen = 0 /\ tab = 0

\* The lock is that of the save that writes, and the saves that wait are those of
\* instances that were made, of an array that they have or had once they wait for
\* the lock.
Owning == {"backup", "commit", "unlock"}
Waits(k) == save[k].at \in {"shown", "lock"}
SaveInv == /\ \A k \in Slots : lock = k <=> save[k].at \in Owning
           /\ \A k \in Slots : Waits(k) => /\ save[k].by \in 1..Newest
                                           /\ save[k].arr <= cur[save[k].by]

IInv == PersistenceTypeOK /\ StageInv /\ PlaceInv /\ SaveInv

\* A message that is shown before it is saved is one of an instance that has
\* loaded its history.
HasHistory == {"running", "ended"}
ShowInv == \A k \in Slots : save[k].at = "shown" => inst[save[k].by] \in HasHistory

\* A save that waits is bound to be an exposure when its instance is no longer
\* the newest, or its array no longer the one the instance has.
Stray(k) == save[k].by # Newest \/ (save[k].at = "lock" /\ save[k].arr # cur[Newest])
Doomed == \E k \in Slots : Waits(k) /\ Stray(k)
Pending == \E k \in Slots : Waits(k)

\* What the file holds once the save that has the lock is done.
Disk == IF Writing THEN save[lock].data ELSE file
Untouched == said = {} /\ file = NoFile /\ lock = 0 /\ ~item /\ \A k \in Slots : save[k].at # "item"

\* The newest instance has every message, or is about to read them, and they
\* are in the file, or a save that will bring them there is waiting.
Whole(n) == /\ inst[n] # "failed"
            /\ inst[n] \in {"reread", "running", "ended"} => Messages(n) = said
            /\ inst[n] = "overwrite" => mem[n][1] = said
            /\ inst[n] = "read" => ~Writing
            /\ inst[n] \in Reading => ~Untouched /\ \A k \in Slots : Waits(k) => save[k].by # n
            /\ Disk = said \/ Pending \/ Untouched
WholeInv == ~exposed /\ ~deleted /\ ~Doomed => \A n \in Insts : n = Newest => Whole(n)

----------------------------------------------------------------------------
(* The newest instance                                                     *)

LEMMA NewestOf ==
    ASSUME NEW f, NEW n \in Insts, f[n] # "unborn",
           \A i \in Insts : i > n => f[i] = "unborn"
    PROVE  n = CHOOSE m \in Insts : f[m] # "unborn" /\ \A i \in Insts : i > m => f[i] = "unborn"
<1>1. \A m \in Insts :
         f[m] # "unborn" /\ (\A i \in Insts : i > m => f[i] = "unborn") => m = n
  BY HistoryAssumption DEF Insts
<1> QED
  BY <1>1

\* The lemma for a state and for the next one.
LEMMA NewestIs ==
    ASSUME NEW n \in Insts
    PROVE  (IsNewest(n) => Newest = n) /\ (IsNewest(n)' => Newest' = n)
<1>1. IsNewest(n) => Newest = n
  BY NewestOf, Zenon DEF IsNewest, Born, Newest
<1>2. IsNewest(n)' => Newest' = n
  BY NewestOf, Zenon DEF IsNewest, Born, Newest
<1> QED
  BY <1>1, <1>2

LEMMA NewestExists ==
    ASSUME StageInv
    PROVE  Newest \in Insts /\ IsNewest(Newest) /\ Newest \in Nat
<1>1. PICK n \in Insts : IsNewest(n)
  BY DEF StageInv
<1> QED
  BY <1>1, NewestIs, HistoryAssumption DEF Insts

\* Instances that go on do not change which is the newest.
LEMMA NewestStays ==
    ASSUME StageInv, \A i \in Insts : Born(i)' = Born(i)
    PROVE  Newest' = Newest
<1>1. PICK n \in Insts : n = Newest /\ IsNewest(n)
  BY NewestExists
<1>2. IsNewest(n)'
  BY <1>1 DEF IsNewest
<1> QED
  BY <1>1, <1>2, NewestIs

LEMMA NewestMade ==
    ASSUME PersistenceTypeOK, StageInv, NewInstance
    PROVE  /\ Newest + 1 \in Insts /\ inst[Newest + 1] = "unborn"
           /\ Newest' = Newest + 1
           /\ inst'[Newest + 1] = "exists" /\ \A i \in Insts : i # Newest + 1 => inst'[i] = inst[i]
<1>1. /\ Newest \in Insts /\ IsNewest(Newest) /\ Newest < MaxInsts
      /\ inst' = [inst EXCEPT ![Newest + 1] = "exists"]
  BY NewestExists DEF NewInstance, Room
<1>2. PICK n \in Insts : n = Newest
  BY <1>1
<1>3. n + 1 \in Insts /\ inst[n + 1] = "unborn"
  BY <1>1, <1>2, HistoryAssumption DEF Insts, IsNewest, Born
<1>4. inst'[n + 1] = "exists" /\ \A i \in Insts : i # n + 1 => inst'[i] = inst[i]
  BY <1>1, <1>2, <1>3 DEF PersistenceTypeOK
<1>5. IsNewest(n + 1)'
  BY <1>1, <1>2, <1>3, <1>4 DEF IsNewest, Insts, Born
<1>6. Newest' = n + 1
  BY <1>3, <1>5, NewestIs
<1> QED
  BY <1>2, <1>3, <1>4, <1>6

----------------------------------------------------------------------------
(* Types, the lock and the waiting saves                                   *)

Save == [at : {"none", "shown", "lock", "backup", "commit", "unlock", "item"}, by : 0..MaxInsts,
         arr : Arrays, for : {"nobody", "loader", "provider"}, data : SUBSET Msgs]
Saves == [Slots -> Save]

LEMMA NoSaveTyped == NoSave \in Save /\ NoSave.at = "none"
BY HistoryAssumption DEF NoSave, Save, Arrays

\* The removal of the directory leaves no save that is writing.
LEMMA RemainsIs ==
    ASSUME NEW s \in Save
    PROVE  /\ Remains(s) \in Save /\ Remains(s).at \notin Owning
           /\ Remains(s).at \in {"shown", "lock"} \/ s.at \in {"shown", "lock"} => Remains(s) = s
<1>1. CASE s.at \in {"backup", "commit"}
  BY <1>1, NoSaveTyped DEF Remains, Owning
<1>2. CASE s.at = "unlock"
  <2>1. [NoSave EXCEPT !.at = "item", !.for = s.for] \in Save
    BY NoSaveTyped DEF Save
  <2> QED
    BY <1>2, <2>1 DEF Remains, Owning, NoSave
<1>3. CASE s.at \notin {"backup", "commit", "unlock"}
  BY <1>3 DEF Remains, Owning
<1> QED
  BY <1>1, <1>2, <1>3

LEMMA SlotMoves ==
    ASSUME save \in Saves, NEW k \in Slots, NEW r \in Save, save' = [save EXCEPT ![k] = r]
    PROVE  /\ save' \in Saves /\ save'[k] = r
           /\ \A l \in Slots : l # k => save'[l] = save[l]
BY DEF Saves

\* A save that has just begun: the message is shown first, or the array handed over.
Begun(r, i, a) == /\ r.by = i
                  /\ \/ r.at = "shown" /\ r.arr = 0
                     \/ r.at = "lock" /\ r.arr = a
Begins(i, a) == \/ \E f \in {"nobody", "loader", "provider"} : \E k \in Slots : BeginSave(k, i, a, f)
                \/ \E k \in Slots : BeginShowing(k, i)

\* A save begins in a free slot.
LEMMA SaveBegins ==
    ASSUME save \in Saves, NEW i \in Insts, NEW a \in Arrays, Begins(i, a)
    PROVE  /\ save' \in Saves
           /\ \E k \in Slots : /\ save[k] = NoSave /\ Begun(save'[k], i, a)
                               /\ \A l \in Slots : l # k => save'[l] = save[l]
<1> DEFINE Handed(f) == [at |-> "lock", by |-> i, arr |-> a, for |-> f, data |-> {}]
           First == [NoSave EXCEPT !.at = "shown", !.by = i]
           Starts(k, r) == /\ save[k] = NoSave /\ save' = [save EXCEPT ![k] = r]
                           /\ r = First \/ \E f \in {"nobody", "loader", "provider"} : r = Handed(f)
<1>1. \E k \in Slots : \E r : Starts(k, r)
  <2>1. ASSUME NEW f \in {"nobody", "loader", "provider"}, NEW k \in Slots, BeginSave(k, i, a, f)
        PROVE  Starts(k, Handed(f))
    BY <2>1 DEF BeginSave
  <2>2. ASSUME NEW k \in Slots, BeginShowing(k, i) PROVE Starts(k, First)
    BY <2>2 DEF BeginShowing
  <2> HIDE DEF Starts
  <2> QED
    BY <2>1, <2>2 DEF Begins
<1>2. PICK k \in Slots : \E r : Starts(k, r)
  BY <1>1
<1>3. PICK r : Starts(k, r)
  BY <1>2
<1>4. r \in Save /\ Begun(r, i, a)
  <2>1. CASE r = First
    <3>1. i \in 0..MaxInsts
      BY HistoryAssumption DEF Insts
    <3>2. First \in Save
      BY <3>1, NoSaveTyped DEF Save
    <3> QED
      BY <2>1, <3>2 DEF Begun, NoSave
  <2>2. ASSUME NEW f \in {"nobody", "loader", "provider"}, r = Handed(f) PROVE r \in Save /\ Begun(r, i, a)
    BY <2>2, HistoryAssumption DEF Begun, Insts, Save
  <2> QED
    BY <1>3, <2>1, <2>2
<1> QED
  BY <1>3, <1>4, SlotMoves

\* The waiting saves stay those of what was made, when one is added of an
\* instance that was made and of an array it has.
LEMMA WaitingKeeps ==
    ASSUME SaveInv, save \in Saves, Newest \in Nat, Newest' \in Nat, Newest' >= Newest, lock' = lock,
           cur \in [Insts -> Arrays], cur' \in [Insts -> Arrays],
           \A i \in Insts : cur'[i] >= cur[i], 1..Newest \subseteq Insts, 1..Newest' \subseteq Insts,
           \A k \in Slots : \/ save'[k] = save[k]
                            \/ /\ save[k] = NoSave
                               /\ \E i \in 1..Newest' : \E a : Begun(save'[k], i, a) /\ a <= cur'[i]
    PROVE  SaveInv'
<1>1. ASSUME NEW k \in Slots PROVE (lock' = k <=> save'[k].at \in Owning)
  <2>1. CASE save'[k] = save[k]
    BY <2>1 DEF SaveInv
  <2>2. CASE save[k] = NoSave /\ save'[k].at \in {"shown", "lock"}
    BY <2>2 DEF SaveInv, NoSave, Owning
  <2>3. ASSUME NEW i, NEW a, Begun(save'[k], i, a) PROVE save'[k].at \in {"shown", "lock"}
    BY <2>3 DEF Begun
  <2> QED
    BY <2>1, <2>2, <2>3
<1>2. ASSUME NEW k \in Slots, save'[k].at \in {"shown", "lock"}
      PROVE  save'[k].by \in 1..Newest' /\ save'[k].arr <= cur'[save'[k].by]
  <2>1. CASE save'[k] = save[k]
    <3>1. PICK i \in 1..Newest : i = save[k].by /\ save[k].arr <= cur[i]
      BY <1>2, <2>1 DEF SaveInv, Waits
    <3>2. i \in Insts /\ cur[i] \in Arrays /\ cur'[i] \in Arrays /\ save[k].arr \in Arrays
      BY <3>1 DEF Saves, Save
    <3>3. i \in 1..Newest' /\ save[k].arr <= cur'[i]
      BY <3>1, <3>2 DEF Arrays
    <3> QED
      BY <2>1, <3>1, <3>3
  <2>2. ASSUME NEW i \in 1..Newest', NEW a, Begun(save'[k], i, a), a <= cur'[i]
        PROVE  save'[k].by \in 1..Newest' /\ save'[k].arr <= cur'[save'[k].by]
    <3>1. cur'[i] \in Arrays
      BY <2>2
    <3>2. 0 <= cur'[i]
      BY <3>1 DEF Arrays
    <3> QED
      BY <2>2, <3>2 DEF Begun
  <2> QED
    BY <2>1, <2>2
<1> QED
  BY <1>1, <1>2 DEF SaveInv, Waits

\* What the provider has in sight does not change.
LEMMA PlaceKeeps ==
    ASSUME StageInv, PlaceInv, \A i \in Insts : Born(i)' = Born(i),
           UNCHANGED <<aborted, screen, tab, op>>, item => item'
    PROVE  PlaceInv'
<1>1. Newest' = Newest
  BY NewestStays
<1> QED
  BY <1>1 DEF PlaceInv

LEMMA BornOnes ==
    ASSUME IInv
    PROVE  /\ Newest \in Insts /\ Newest \in Nat /\ 1..Newest \subseteq Insts
           /\ \A i \in Insts : Born(i) <=> inst[i] # "unborn"
           /\ \A i \in Insts : Born(i) => i \in 1..Newest
<1>1. PICK n \in Insts : n = Newest /\ IsNewest(n)
  BY NewestExists DEF IInv
<1> QED
  BY <1>1, HistoryAssumption DEF Insts, IsNewest, Born

----------------------------------------------------------------------------
(* Every step keeps the types, the places and the waiting saves            *)

Writes(k) == Lock(k) \/ GiveUp(k) \/ Backup(k) \/ Commit(k) \/ Unlock(k) \/ UpdateTaskHistory(k)

LEMMA SavingKeeps ==
    ASSUME IInv, NEW k \in Slots, Shown(k) \/ Writes(k)
    PROVE  IInv'
<1>1. /\ PersistenceTypeOK /\ StageInv /\ PlaceInv /\ SaveInv /\ save \in Saves
      /\ UNCHANGED <<held, inst, flags, places, op, deleted, clicks>>
  BY DEF IInv, PersistenceTypeOK, Saves, Save, Shown, Writes, Lock, GiveUp, Backup, Commit, Unlock, UpdateTaskHistory
<1>2. UNCHANGED <<mem, cur, said, inst, aborted, abandoned, screen, tab, op, deleted, clicks>>
  BY <1>1 DEF held, flags, places
<1>3. /\ \A i \in Insts : Born(i)' = Born(i)
      /\ Newest' = Newest
  BY <1>1, <1>2, NewestStays DEF Born
<1>4. /\ save[k] \in Save /\ save[k].by \in 0..MaxInsts /\ save[k].arr \in Arrays
      /\ save[k].data \in SUBSET Msgs
  BY <1>1 DEF Saves, Save
<1>5. item => item'
  BY <1>1 DEF Shown, Writes, Lock, GiveUp, Backup, Commit, Unlock, UpdateTaskHistory, stored
<1>6. StageInv' /\ PlaceInv'
  BY <1>1, <1>2, <1>3, <1>5, PlaceKeeps DEF StageInv, IsNewest
<1>7. /\ save' \in Saves
      /\ \A l \in Slots : l # k => save'[l] = save[l]
      /\ save'[k].at \in Owning <=> lock' = k
      /\ save'[k].at \in {"shown", "lock"} => /\ save[k].at = "shown" /\ save'[k].by = save[k].by
                                              /\ save'[k].arr = cur[save[k].by]
      /\ \A l \in Slots : l # k => (lock' = l <=> lock = l)
  <2> USE DEF Owning
  <2>0. CASE Shown(k)
    <3>1. save[k].at = "shown" /\ save[k].by \in Insts
      BY <1>1, <2>0, BornOnes DEF SaveInv, Waits, Shown
    <3>2. cur[save[k].by] \in Arrays
      BY <1>1, <3>1 DEF PersistenceTypeOK
    <3>3. PICK r : r = [save[k] EXCEPT !.at = "lock", !.arr = cur[save[k].by]]
      OBVIOUS
    <3>4. r \in Save /\ r.at = "lock" /\ r.by = save[k].by /\ r.arr = cur[save[k].by]
      BY <1>4, <3>2, <3>3 DEF Save
    <3>5. save' = [save EXCEPT ![k] = r]
      BY <1>1, <2>0, <3>3 DEF Shown, Saves
    <3>6. save' \in Saves /\ save'[k] = r /\ \A l \in Slots : l # k => save'[l] = save[l]
      BY <1>1, <3>4, <3>5, SlotMoves
    <3>7. lock' = lock /\ lock # k
      BY <1>1, <2>0, <3>1 DEF Shown, stored, SaveInv
    <3> QED
      BY <3>1, <3>4, <3>6, <3>7
  <2>1. CASE Lock(k)
    <3>1. mem[save[k].by][save[k].arr] \in SUBSET Msgs
      <4>1. save[k].by \in Insts
        BY <1>1, <2>1, BornOnes DEF SaveInv, Waits, Lock
      <4> QED
        BY <1>1, <1>4, <4>1 DEF PersistenceTypeOK
    <3>2. PICK d \in SUBSET Msgs : save' = [save EXCEPT ![k].at = "backup", ![k].data = d]
      BY <2>1, <3>1 DEF Lock
    <3>3. PICK r : r = [save[k] EXCEPT !.at = "backup", !.data = d]
      OBVIOUS
    <3>4. r \in Save /\ r.at = "backup"
      BY <1>4, <3>3 DEF Save
    <3>5. save' = [save EXCEPT ![k] = r]
      BY <1>1, <3>2, <3>3 DEF Saves
    <3>6. lock' = k /\ lock = 0 /\ \A l \in Slots : l # 0
      BY <2>1 DEF Lock, Slots
    <3> QED
      BY <1>1, <3>4, <3>5, <3>6, SlotMoves
  <2>2. CASE GiveUp(k)
    <3>1. save' \in Saves /\ save'[k] = NoSave /\ \A l \in Slots : l # k => save'[l] = save[l]
      BY <1>1, <2>2, NoSaveTyped, SlotMoves DEF GiveUp
    <3>2. lock' = lock /\ lock # k
      BY <1>1, <2>2 DEF GiveUp, stored, SaveInv
    <3> QED
      BY <3>1, <3>2 DEF NoSave
  <2>3. CASE Backup(k)
    <3>1. PICK r : r = [save[k] EXCEPT !.at = "commit"]
      OBVIOUS
    <3>2. r \in Save /\ r.at = "commit" /\ save' = [save EXCEPT ![k] = r]
      BY <1>1, <1>4, <2>3, <3>1 DEF Backup, Save
    <3>3. lock' = lock /\ lock = k
      BY <1>1, <2>3 DEF Backup, SaveInv
    <3> QED
      BY <1>1, <3>2, <3>3, SlotMoves
  <2>4. CASE Commit(k)
    <3>1. PICK r : r = [save[k] EXCEPT !.at = "unlock"]
      OBVIOUS
    <3>2. r \in Save /\ r.at = "unlock" /\ save' = [save EXCEPT ![k] = r]
      BY <1>1, <1>4, <2>4, <3>1 DEF Commit, Save
    <3>3. lock' = lock /\ lock = k
      BY <1>1, <2>4 DEF Commit, SaveInv
    <3> QED
      BY <1>1, <3>2, <3>3, SlotMoves
  <2>4a. CASE Unlock(k)
    <3>1. PICK r : r = [NoSave EXCEPT !.at = "item", !.for = save[k].for]
      OBVIOUS
    <3>2. r \in Save /\ r.at = "item" /\ save' = [save EXCEPT ![k] = r]
      BY <1>4, <2>4a, <3>1, NoSaveTyped DEF Unlock, Save
    <3>3. lock' = 0 /\ lock = k /\ \A l \in Slots : l # 0
      BY <1>1, <2>4a DEF Unlock, SaveInv, Slots
    <3> QED
      BY <1>1, <3>2, <3>3, SlotMoves
  <2>5. CASE UpdateTaskHistory(k)
    <3>1. save' \in Saves /\ save'[k] = NoSave /\ \A l \in Slots : l # k => save'[l] = save[l]
      BY <1>1, <2>5, NoSaveTyped, SlotMoves DEF UpdateTaskHistory
    <3>2. lock' = lock /\ lock # k
      BY <1>1, <2>5 DEF UpdateTaskHistory, SaveInv
    <3> QED
      BY <3>1, <3>2 DEF NoSave
  <2> QED
    BY <2>0, <2>1, <2>2, <2>3, <2>4, <2>4a, <2>5 DEF Writes
<1>8. SaveInv'
  <2>1. ASSUME NEW l \in Slots PROVE lock' = l <=> save'[l].at \in Owning
    BY <1>1, <1>7 DEF SaveInv
  <2>2. ASSUME NEW l \in Slots, save'[l].at \in {"shown", "lock"}
        PROVE  save'[l].by \in 1..Newest' /\ save'[l].arr <= cur'[save'[l].by]
    <3>1. CASE l # k
      BY <1>1, <1>2, <1>3, <1>7, <2>2, <3>1 DEF SaveInv, Waits
    <3>2. CASE l = k
      <4>1. PICK b \in 1..Newest : b = save[k].by /\ save'[k].by = b /\ save'[k].arr = cur[b]
        BY <1>1, <1>7, <2>2, <3>2 DEF SaveInv, Waits
      <4>2. cur[b] \in Arrays
        BY <1>1, <4>1, BornOnes DEF PersistenceTypeOK
      <4>3. cur[b] <= cur[b]
        BY <4>2 DEF Arrays
      <4> QED
        BY <1>2, <1>3, <3>2, <4>1, <4>3
    <3> QED
      BY <3>1, <3>2
  <2> QED
    BY <2>1, <2>2 DEF SaveInv, Waits
<1>9. file' \in (SUBSET Msgs) \union {NoFile} /\ item' \in BOOLEAN /\ lock' \in 0..MaxSaves
      /\ exposed' \in BOOLEAN
  <2>1. k \in 0..MaxSaves /\ 0 \in 0..MaxSaves
    BY HistoryAssumption DEF Slots
  <2>2. file' \in (SUBSET Msgs) \union {NoFile}
    BY <1>1, <1>4 DEF PersistenceTypeOK, Shown, Writes, Lock, GiveUp, Backup, Commit, Unlock, UpdateTaskHistory, stored
  <2>3. lock' \in 0..MaxSaves
    BY <1>1, <2>1 DEF PersistenceTypeOK, Shown, Writes, Lock, GiveUp, Backup, Commit, Unlock, UpdateTaskHistory, stored
  <2>4. item' \in BOOLEAN /\ exposed' \in BOOLEAN
    BY <1>1 DEF PersistenceTypeOK, Shown, Writes, Lock, GiveUp, Backup, Commit, Unlock, UpdateTaskHistory, stored
  <2> QED
    BY <2>2, <2>3, <2>4
<1>10. PersistenceTypeOK'
  BY <1>1, <1>2, <1>7, <1>9 DEF PersistenceTypeOK, Saves, Save
<1> QED
  BY <1>6, <1>8, <1>10 DEF IInv

Ways == {"nobody", "loader", "provider"}
Stages == Loading \union {"running", "ended", "failed"}

\* What the steps of one instance have in common: it goes on to a stage x and an
\* array c, and may begin a save of that array.
OneInstance(i, x, c) ==
    /\ inst[i] # "unborn"
    /\ inst' = [inst EXCEPT ![i] = x]
    /\ cur' = [cur EXCEPT ![i] = c] /\ cur[i] <= c
    /\ x \in Reading => c = 0
    /\ x = "reread" => c = 1
    /\ inst[i] \in HasHistory => x \in HasHistory
    /\ \/ save' = save
       \/ \E f \in Ways : \E k \in Slots : BeginSave(k, i, c, f)
       \/ x \in HasHistory /\ \E k \in Slots : BeginShowing(k, i)
    /\ UNCHANGED <<file, item, lock, aborted, abandoned, screen, tab, op, deleted>>

\* The steps of an instance.
Steps(i) == \/ \E m \in Msgs : AddToClineMessages(i, m)
            \/ \E kept \in SUBSET Msgs : DeleteMessages(i, kept)
            \/ StreamAborts(i) \/ FileExists(i) \/ ReadFile(i) \/ Overwrite(i) \/ Reread(i)

LEMMA InstanceSteps ==
    ASSUME IInv, NEW i \in Insts, Steps(i)
    PROVE  \E x \in Stages, c \in Arrays : OneInstance(i, x, c)
<1>1. /\ inst \in [Insts -> Stages \union {"unborn"}] /\ cur \in [Insts -> Arrays] /\ cur[i] \in Arrays
      /\ inst[i] \in Reading \union {"unborn"} => cur[i] = 0
      /\ inst[i] = "reread" => cur[i] = 1
  BY DEF IInv, PersistenceTypeOK, StageInv, Stages
<1>2. inst = [inst EXCEPT ![i] = inst[i]] /\ cur = [cur EXCEPT ![i] = cur[i]] /\ cur[i] <= cur[i]
  BY <1>1 DEF Arrays
<1>3. ASSUME NEW m \in Msgs, AddToClineMessages(i, m) PROVE OneInstance(i, "running", cur[i])
  BY <1>1, <1>2, <1>3 DEF AddToClineMessages, Says, OneInstance, Ways, Reading, HasHistory, stored, flags, places
<1>4. ASSUME NEW kept \in SUBSET Msgs, DeleteMessages(i, kept) PROVE OneInstance(i, "running", 3)
  BY <1>1, <1>2, <1>4
     DEF DeleteMessages, Says, OneInstance, Ways, Reading, HasHistory, Arrays, stored, flags, places
<1>5. CASE StreamAborts(i)
  <2>1. OneInstance(i, "ended", cur[i])
    BY <1>1, <1>2, <1>5 DEF StreamAborts, OneInstance, Ways, Reading, HasHistory, stored, held, flags, places
  <2> QED
    BY <1>1, <2>1 DEF Stages
<1>6. CASE FileExists(i)
  <2>1. inst[i] = "exists" /\ cur[i] = 0
    BY <1>1, <1>6 DEF FileExists, Reading
  <2>2. PICK x \in {"overwrite", "read"} : inst' = [inst EXCEPT ![i] = x]
    BY <1>6 DEF FileExists
  <2>3. OneInstance(i, x, 0)
    BY <1>1, <1>2, <1>6, <2>1, <2>2
       DEF FileExists, OneInstance, Ways, Reading, HasHistory, stored, held, flags, places
  <2> QED
    BY <2>3 DEF Stages, Loading, Arrays
<1>7. CASE ReadFile(i)
  <2>1. inst[i] = "read" /\ cur[i] = 0
    BY <1>1, <1>7 DEF ReadFile, Reading
  <2>2. PICK x \in {"overwrite", "failed"} : inst' = [inst EXCEPT ![i] = x]
    BY <1>7 DEF ReadFile
  <2>3. OneInstance(i, x, 0)
    BY <1>1, <1>2, <1>7, <2>1, <2>2
       DEF ReadFile, OneInstance, Ways, Reading, HasHistory, stored, held, flags, places
  <2> QED
    BY <2>3 DEF Stages, Loading, Arrays
<1>8. CASE Overwrite(i)
  <2>1. inst[i] = "overwrite" /\ cur[i] = 0
    BY <1>1, <1>8 DEF Overwrite, Reading
  <2>2. OneInstance(i, "reread", 1)
    BY <1>1, <1>2, <1>8, <2>1
       DEF Overwrite, OneInstance, Ways, Reading, HasHistory, stored, held, flags, places
  <2> QED
    BY <2>2 DEF Stages, Loading, Arrays
<1>9. CASE Reread(i)
  <2>1. inst[i] = "reread" /\ cur[i] = 1
    BY <1>1, <1>9 DEF Reread, Reading
  <2>2. PICK x \in {"ended", "running"} : inst' = [inst EXCEPT ![i] = x]
    BY <1>9 DEF Reread
  <2>3. /\ cur' = [cur EXCEPT ![i] = 2] /\ save' = save
        /\ UNCHANGED <<file, item, lock, aborted, abandoned, screen, tab, op, deleted>>
    BY <1>9 DEF Reread, stored, flags, places
  <2>4. OneInstance(i, x, 2)
    BY <2>1, <2>2, <2>3 DEF OneInstance, Reading, HasHistory
  <2> QED
    BY <2>4 DEF Stages, Loading, Arrays
<1> QED
  BY <1>1, <1>3, <1>4, <1>5, <1>6, <1>7, <1>8, <1>9 DEF Steps, Stages, Arrays

LEMMA OneInstanceKeeps ==
    ASSUME IInv, NEW i \in Insts, NEW x \in Stages, NEW c \in Arrays, OneInstance(i, x, c)
    PROVE  /\ StageInv' /\ PlaceInv' /\ SaveInv' /\ Newest' = Newest
           /\ save' \in Saves /\ cur' \in [Insts -> Arrays]
           /\ inst' \in [Insts -> Stages \union {"unborn"}]
<1>1. /\ PersistenceTypeOK /\ StageInv /\ PlaceInv /\ SaveInv /\ save \in Saves
      /\ inst \in [Insts -> Stages \union {"unborn"}] /\ cur \in [Insts -> Arrays] /\ cur[i] \in Arrays
  BY DEF IInv, PersistenceTypeOK, Saves, Save, Stages
<1>2. /\ inst'[i] = x /\ \A j \in Insts : j # i => inst'[j] = inst[j]
      /\ cur'[i] = c /\ \A j \in Insts : j # i => cur'[j] = cur[j]
      /\ inst' \in [Insts -> Stages \union {"unborn"}] /\ cur' \in [Insts -> Arrays]
  BY <1>1 DEF OneInstance
<1>3. \A j \in Insts : Born(j)' = Born(j)
  BY <1>2 DEF OneInstance, Born, Stages, Loading
<1>4. Newest' = Newest /\ Newest \in Nat /\ i \in 1..Newest /\ 1..Newest \subseteq Insts
  BY <1>1, <1>3, NewestStays, BornOnes DEF OneInstance
<1>5. PlaceInv'
  BY <1>1, <1>3, PlaceKeeps DEF OneInstance
<1>6. StageInv'
  <2>1. PICK n \in Insts : IsNewest(n)
    BY <1>1 DEF StageInv
  <2>2. IsNewest(n)'
    BY <1>3, <2>1 DEF IsNewest
  <2>3. ASSUME NEW j \in Insts
        PROVE  /\ inst'[j] \in Reading \union {"unborn"} => cur'[j] = 0
               /\ inst'[j] = "reread" => cur'[j] = 1
    BY <1>1, <1>2 DEF StageInv, OneInstance, Stages, Loading
  <2> QED
    BY <2>2, <2>3 DEF StageInv
<1>7. \A j \in Insts : cur'[j] >= cur[j]
  BY <1>1, <1>2 DEF OneInstance, Arrays
<1>8. \/ save' = save
      \/ /\ save' \in Saves
         /\ \E k \in Slots : /\ save[k] = NoSave /\ Begun(save'[k], i, c)
                             /\ \A l \in Slots : l # k => save'[l] = save[l]
  BY <1>1, SaveBegins DEF OneInstance, Ways, Begins
<1>9. \A l \in Slots : \/ save'[l] = save[l]
                       \/ /\ save[l] = NoSave
                          /\ \E j \in 1..Newest' : \E a : Begun(save'[l], j, a) /\ a <= cur'[j]
  <2>1. c <= cur'[i] /\ i \in 1..Newest'
    BY <1>2, <1>4 DEF Arrays
  <2> QED
    BY <1>8, <2>1
<1>10. SaveInv' /\ save' \in Saves
  <2>1. lock' = lock
    BY DEF OneInstance
  <2> QED
    BY <1>1, <1>2, <1>4, <1>7, <1>8, <1>9, <2>1, WaitingKeeps
<1> QED
  BY <1>2, <1>4, <1>5, <1>6, <1>10

LEMMA StepsKeep ==
    ASSUME IInv, NEW i \in Insts, Steps(i)
    PROVE  IInv' /\ Newest' = Newest
<1>1. PICK x \in Stages, c \in Arrays : OneInstance(i, x, c)
  BY InstanceSteps
<1>2. /\ StageInv' /\ PlaceInv' /\ SaveInv' /\ Newest' = Newest
      /\ save' \in Saves /\ cur' \in [Insts -> Arrays]
      /\ inst' \in [Insts -> Stages \union {"unborn"}]
  BY <1>1, OneInstanceKeeps
<1>3. /\ PersistenceTypeOK /\ mem \in [Insts -> [Arrays -> SUBSET Msgs]] /\ cur[i] \in Arrays
      /\ UNCHANGED <<file, item, lock, aborted, abandoned, screen, tab, op, deleted>>
  BY <1>1 DEF OneInstance, IInv, PersistenceTypeOK
<1>4. mem' \in [Insts -> [Arrays -> SUBSET Msgs]] /\ said' \subseteq Msgs
  <2>1. ASSUME NEW a \in Arrays, NEW v \in SUBSET Msgs, mem' = [mem EXCEPT ![i][a] = v]
        PROVE  mem' \in [Insts -> [Arrays -> SUBSET Msgs]]
    BY <1>3, <2>1
  <2>2. ASSUME NEW m \in Msgs, AddToClineMessages(i, m)
        PROVE  mem' \in [Insts -> [Arrays -> SUBSET Msgs]] /\ said' \subseteq Msgs
    <3>1. PICK v \in SUBSET Msgs : mem' = [mem EXCEPT ![i][cur[i]] = v]
      BY <1>3, <2>2 DEF AddToClineMessages
    <3>2. said' \subseteq Msgs
      BY <1>3, <2>2 DEF AddToClineMessages, PersistenceTypeOK
    <3> QED
      BY <1>3, <2>1, <3>1, <3>2
  <2>3. ASSUME NEW kept \in SUBSET Msgs, DeleteMessages(i, kept)
        PROVE  mem' \in [Insts -> [Arrays -> SUBSET Msgs]] /\ said' \subseteq Msgs
    <3>1. mem' = [mem EXCEPT ![i][3] = kept] /\ said' = kept /\ 3 \in Arrays
      BY <2>3 DEF DeleteMessages, Arrays
    <3> QED
      BY <2>1, <3>1
  <2>4. CASE UNCHANGED mem /\ UNCHANGED said
    BY <1>3, <2>4 DEF PersistenceTypeOK
  <2>5. CASE ReadFile(i)
    <3>1. said' = said /\ 1 \in Arrays /\ said \subseteq Msgs
      BY <1>3, <2>5 DEF ReadFile, Arrays, PersistenceTypeOK
    <3>2. CASE mem' = mem
      BY <1>3, <3>1, <3>2
    <3>3. CASE file # NoFile /\ mem' = [mem EXCEPT ![i][1] = file]
      <4>1. file \in SUBSET Msgs
        BY <1>3, <3>3 DEF PersistenceTypeOK
      <4> QED
        BY <2>1, <3>1, <3>3, <4>1
    <3> QED
      BY <2>5, <3>2, <3>3 DEF ReadFile
  <2>6. CASE Reread(i)
    <3>1. PICK v \in SUBSET Msgs : mem' = [mem EXCEPT ![i][2] = v]
      BY <1>3, <2>6 DEF Reread, PersistenceTypeOK
    <3> QED
      BY <1>3, <2>1, <2>6, <3>1 DEF Reread, Arrays, PersistenceTypeOK
  <2> QED
    BY <2>2, <2>3, <2>4, <2>5, <2>6 DEF Steps, StreamAborts, FileExists, Overwrite, held
<1>5. exposed' \in BOOLEAN
  BY <1>3 DEF Steps, AddToClineMessages, DeleteMessages, StreamAborts, FileExists, ReadFile,
              Overwrite, Reread, PersistenceTypeOK
<1>6. clicks' \in 0..Clicks
  BY <1>3, HistoryAssumption DEF Steps, AddToClineMessages, DeleteMessages, StreamAborts, FileExists, ReadFile,
              Overwrite, Reread, PersistenceTypeOK, Click
<1>7. PersistenceTypeOK'
  BY <1>2, <1>3, <1>4, <1>5, <1>6 DEF PersistenceTypeOK, Saves, Save, Stages
<1> QED
  BY <1>2, <1>7 DEF IInv

\* A step of the provider aborts the instance in sight and may begin its save.
Aborts(i) == /\ i \in {screen, tab} \ {0}
             /\ aborted' = aborted \union {i}
             /\ \E leave \in SUBSET {i} : abandoned' = abandoned \union leave
             /\ \/ save' = save
                \/ \E f \in Ways : \E k \in Slots : BeginSave(k, i, cur[i], f)
             /\ UNCHANGED <<inst, cur>>

LEMMA AbortsKeep ==
    ASSUME IInv, NEW i, Aborts(i), lock' = lock
    PROVE  /\ StageInv' /\ SaveInv' /\ Newest' = Newest /\ i = Newest
           /\ save' \in Saves /\ aborted' \subseteq Insts /\ abandoned' \subseteq Insts
<1>1. /\ PersistenceTypeOK /\ StageInv /\ PlaceInv /\ SaveInv /\ save \in Saves
      /\ cur \in [Insts -> Arrays] /\ UNCHANGED <<inst, cur>>
  BY DEF IInv, PersistenceTypeOK, Saves, Save, Aborts
<1>2. i = Newest /\ i \in Insts /\ i \in 1..Newest /\ Newest \in Nat /\ 1..Newest \subseteq Insts
  BY <1>1, BornOnes DEF Aborts, PlaceInv, Insts
<1>3. Newest' = Newest /\ StageInv'
  <2>1. \A j \in Insts : Born(j)' = Born(j)
    BY <1>1 DEF Born
  <2> QED
    BY <1>1, <2>1, NewestStays DEF StageInv, IsNewest
<1>4. cur[i] \in Arrays /\ cur[i] <= cur'[i] /\ \A j \in Insts : cur'[j] >= cur[j]
  BY <1>1, <1>2 DEF Arrays
<1>5. \/ save' = save
      \/ /\ save' \in Saves
         /\ \E k \in Slots : /\ save[k] = NoSave /\ Begun(save'[k], i, cur[i])
                             /\ \A l \in Slots : l # k => save'[l] = save[l]
  BY <1>1, <1>2, <1>4, SaveBegins DEF Aborts, Ways, Begins
<1>6. \A l \in Slots : \/ save'[l] = save[l]
                       \/ /\ save[l] = NoSave
                          /\ \E j \in 1..Newest' : \E a : Begun(save'[l], j, a) /\ a <= cur'[j]
  BY <1>2, <1>3, <1>4, <1>5
<1>7. SaveInv' /\ save' \in Saves
  BY <1>1, <1>2, <1>3, <1>4, <1>5, <1>6, WaitingKeeps
<1>8. aborted' \subseteq Insts /\ abandoned' \subseteq Insts
  BY <1>1, <1>2 DEF Aborts, PersistenceTypeOK
<1> QED
  BY <1>2, <1>3, <1>7, <1>8

LEMMA ClicksGo ==
    ASSUME clicks \in 0..Clicks, Click \/ clicks' = clicks
    PROVE  clicks' \in 0..Clicks
BY HistoryAssumption DEF Click

LEMMA ProviderAborts ==
    ASSUME IInv,
           CancelTask \/ RemoveClineFromStack \/ (\E i \in Insts : CloseTask(i)) \/ (DeleteTask /\ screen # 0)
    PROVE  Aborts(Newest) /\ IInv' /\ Newest' = Newest
<1>1. /\ PersistenceTypeOK /\ PlaceInv /\ Newest \in Insts
      /\ UNCHANGED <<file, item, lock, mem, cur, said, inst, deleted>>
  BY BornOnes DEF IInv, CancelTask, RemoveClineFromStack, CloseTask, DeleteTask, stored, held
<1>2. PICK i : Aborts(i)
  <2>1. ASSUME NEW i \in {screen, tab} \ {0}, NEW f \in Ways, AbortTask(i, f, {i}) PROVE Aborts(i)
    BY <1>1, <2>1 DEF AbortTask, Aborts
  <2> QED
    BY <1>1, <2>1 DEF CancelTask, RemoveClineFromStack, CloseTask, DeleteTask, PlaceInv, Ways
<1>3. i = Newest /\ StageInv' /\ SaveInv' /\ Newest' = Newest /\ save' \in Saves
      /\ aborted' \subseteq Insts /\ abandoned' \subseteq Insts
  BY <1>1, <1>2, AbortsKeep
<1>4. /\ \/ screen' = screen /\ tab' = tab /\ op' = "cancel" /\ screen # 0
         \/ screen' = 0 /\ tab' = 0 /\ op' = "replace"
         \/ screen' = 0 /\ tab' = 0 /\ op' \in {"close", "delete"}
      /\ op' \in {"cancel", "replace"} => item
      /\ Click \/ clicks' = clicks
      /\ exposed' \in BOOLEAN
  <2>1. screen = 0 \/ tab = 0
    BY <1>1 DEF PlaceInv
  <2>2. CASE CancelTask
    BY <2>2 DEF CancelTask, AbortTask, places
  <2>3. CASE RemoveClineFromStack
    BY <1>1, <2>1, <2>3 DEF RemoveClineFromStack, AbortTask, PlaceInv
  <2>4. ASSUME NEW j \in Insts, CloseTask(j)
        PROVE  screen' = 0 /\ tab' = 0 /\ op' = "close" /\ Click /\ exposed' \in BOOLEAN
    BY <2>4 DEF CloseTask, AbortTask
  <2>5. CASE DeleteTask /\ screen # 0
    BY <2>5 DEF DeleteTask, AbortTask
  <2> QED
    BY <2>2, <2>3, <2>4, <2>5
<1>5. PlaceInv'
  <2>1. aborted' = aborted \union {i} /\ {screen, tab} \ {0} = {i}
    BY <1>1, <1>2, <1>3 DEF Aborts, PlaceInv
  <2>2. \A j \in Insts : Born(j)' => j \in aborted'
    <3>1. \A j \in Insts : j # 0
      BY DEF Insts
    <3> QED
      BY <1>1, <2>1, <3>1 DEF PlaceInv, Born
  <2>3. {screen', tab'} \subseteq {screen, tab, 0} /\ (screen' = 0 \/ tab' = 0)
    BY <1>1, <1>4 DEF PlaceInv
  <2>4. {screen, tab, 0} \subseteq {0, Newest'}
    BY <1>1, <1>3 DEF PlaceInv
  <2> QED
    BY <1>1, <1>4, <2>2, <2>3, <2>4 DEF PlaceInv
<1>6. PersistenceTypeOK'
  <2>1. op' \in {"none", "cancel", "replace", "close", "delete", "remove"}
    BY <1>4
  <2>2. screen' \in 0..MaxInsts /\ tab' \in 0..MaxInsts
    BY <1>1, <1>4, HistoryAssumption DEF PersistenceTypeOK
  <2>3. clicks' \in 0..Clicks
    BY <1>1, <1>4, ClicksGo DEF PersistenceTypeOK
  <2> QED
    BY <1>1, <1>2, <1>3, <1>4, <2>1, <2>2, <2>3 DEF PersistenceTypeOK, Saves, Save, Aborts
<1> QED
  BY <1>2, <1>3, <1>5, <1>6 DEF IInv

\* A new instance goes on screen when nothing is in sight.
LEMMA ProviderCreates ==
    ASSUME IInv, CreateTask \/ ShowTask
    PROVE  IInv' /\ item /\ Newest' = Newest + 1
<1>1. /\ PersistenceTypeOK /\ PlaceInv /\ StageInv /\ SaveInv /\ NewInstance /\ item
      /\ UNCHANGED <<file, item, lock, save, mem, cur, said, aborted, abandoned, tab, deleted>>
      /\ op' = "none" /\ exposed' = exposed
  BY DEF IInv, PlaceInv, CreateTask, ShowTask, stored, held, flags
<1>2. PICK n \in Insts : /\ n = Newest /\ n \in Nat /\ 1..n \subseteq Insts
                         /\ \A i \in Insts : Born(i) => i \in 1..n
  BY BornOnes
<1>3. /\ n + 1 \in Insts /\ inst[n + 1] = "unborn" /\ Newest' = n + 1 /\ screen' = n + 1
      /\ inst'[n + 1] = "exists" /\ \A i \in Insts : i # n + 1 => inst'[i] = inst[i]
  BY <1>1, <1>2, NewestMade DEF NewInstance
<1>4. \A i \in Insts : Born(i)' <=> (Born(i) \/ i = n + 1)
  BY <1>3 DEF Born
<1>5. screen = 0 /\ tab = 0 /\ tab' = 0
  BY <1>1 DEF PlaceInv, CreateTask, ShowTask
<1>6. PlaceInv'
  BY <1>1, <1>3, <1>4, <1>5 DEF PlaceInv
<1>7. StageInv'
  <2>1. IsNewest(n + 1)'
    BY <1>1, <1>2, <1>3, <1>4 DEF IsNewest, Insts
  <2>2. ASSUME NEW i \in Insts
        PROVE  /\ inst'[i] \in Reading \union {"unborn"} => cur'[i] = 0
               /\ inst'[i] = "reread" => cur'[i] = 1
    BY <1>1, <1>3 DEF StageInv
  <2> QED
    BY <1>3, <2>1, <2>2 DEF StageInv
<1>8. SaveInv'
  <2>1. save \in Saves /\ cur \in [Insts -> Arrays] /\ \A i \in Insts : cur'[i] >= cur[i]
    BY <1>1 DEF PersistenceTypeOK, Saves, Save, Arrays
  <2>2. n + 1 \in Nat /\ n + 1 >= n /\ 1..(n + 1) \subseteq Insts
    BY <1>2, <1>3
  <2> QED
    BY <1>1, <1>2, <1>3, <2>1, <2>2, WaitingKeeps
<1>9. PersistenceTypeOK'
  <2>1. screen' \in 0..MaxInsts
    BY <1>3 DEF Insts
  <2>2. inst' \in [Insts -> Loading \union {"unborn", "running", "ended", "failed"}]
    BY <1>1, <1>2 DEF PersistenceTypeOK, NewInstance, Loading
  <2>3. clicks' \in 0..Clicks
    BY <1>1, HistoryAssumption DEF PersistenceTypeOK, CreateTask, ShowTask, Click
  <2> QED
    BY <1>1, <2>1, <2>2, <2>3 DEF PersistenceTypeOK
<1> QED
  BY <1>1, <1>2, <1>3, <1>6, <1>7, <1>8, <1>9 DEF IInv

\* The other steps of the provider.
LEMMA ProviderRests ==
    ASSUME IInv,
           \/ CloseEnds \/ SwitchTab \/ (DeleteTask /\ screen = 0)
           \/ DeleteTaskFromState \/ RemoveDirectory
    PROVE  IInv' /\ Newest' = Newest
<1>1. /\ PersistenceTypeOK /\ PlaceInv /\ StageInv /\ SaveInv
      /\ UNCHANGED <<mem, cur, said, inst, abandoned, exposed>>
  BY DEF IInv, CloseEnds, SwitchTab, DeleteTask, DeleteTaskFromState, RemoveDirectory, stored, held, flags
<1>2. Newest' = Newest /\ Newest \in Nat /\ 1..Newest \subseteq Insts
  <2>1. \A i \in Insts : Born(i)' = Born(i)
    BY <1>1 DEF Born
  <2> QED
    BY <1>1, <2>1, NewestStays, BornOnes
<1>3. StageInv'
  BY <1>1 DEF StageInv, IsNewest, Born
<1>4. /\ aborted' \subseteq Insts
      /\ {screen', tab'} \subseteq {screen, tab, 0} /\ (screen' = 0 \/ tab' = 0)
      /\ \A i \in Insts : i \in aborted \union {screen, tab} => i \in aborted' \union {screen', tab'}
      /\ op' \notin {"cancel", "replace"}
      /\ Click \/ clicks' = clicks
  <2>1. aborted \subseteq Insts /\ (screen = 0 \/ tab = 0) /\ \A i \in Insts : i # 0
    BY <1>1 DEF PersistenceTypeOK, PlaceInv, Insts
  <2>2. CASE DeleteTask /\ screen = 0
    <3>1. screen = 0 /\ screen' = 0 /\ tab' = 0 /\ aborted' = aborted \union ({tab} \ {0})
          /\ op' = "delete" /\ Click
      BY <2>2 DEF DeleteTask
    <3>2. tab \in Insts \union {0}
      BY <1>1 DEF PersistenceTypeOK, Insts
    <3> QED
      BY <2>1, <3>1, <3>2
  <2>3. CASE SwitchTab
    BY <2>1, <2>3 DEF SwitchTab, flags
  <2>4. CASE CloseEnds
    BY <2>1, <2>4 DEF CloseEnds, flags, places
  <2>5. CASE DeleteTaskFromState \/ RemoveDirectory
    BY <2>1, <2>5 DEF DeleteTaskFromState, RemoveDirectory, flags, places
  <2> QED
    BY <2>2, <2>3, <2>4, <2>5
<1>5. PlaceInv'
  <2>1. \A i \in Insts : i # 0
    BY DEF Insts
  <2> QED
    BY <1>1, <1>2, <1>4, <2>1 DEF PlaceInv, Born
<1>6. save' \in Saves /\ SaveInv' /\ lock' \in 0..MaxSaves
  <2>1. CASE UNCHANGED <<lock, save>>
    BY <1>1, <1>2, <2>1 DEF SaveInv, Waits, PersistenceTypeOK, Saves, Save
  <2>2. CASE RemoveDirectory
    <3>1. lock' = 0 /\ save' = [k \in Slots |-> Remains(save[k])]
      BY <2>2 DEF RemoveDirectory
    <3>2. save \in Saves
      BY <1>1 DEF PersistenceTypeOK, Saves, Save
    <3>3. save' \in Saves
      BY <3>1, <3>2, RemainsIs DEF Saves
    <3>4. \A k \in Slots : /\ save'[k].at \notin Owning /\ k # 0
                           /\ save'[k].at \in {"shown", "lock"} => save'[k] = save[k]
      BY <3>1, <3>2, RemainsIs DEF Slots, Saves
    <3>5. SaveInv'
      BY <1>1, <1>2, <3>1, <3>4 DEF SaveInv, Waits
    <3> QED
      BY <3>1, <3>3, <3>5, HistoryAssumption
  <2> QED
    BY <2>1, <2>2 DEF CloseEnds, SwitchTab, DeleteTask, DeleteTaskFromState, stored
<1>7. PersistenceTypeOK'
  <2>1. op' \in {"none", "cancel", "replace", "close", "delete", "remove"}
    BY <1>1 DEF PersistenceTypeOK, CloseEnds, SwitchTab, DeleteTask, DeleteTaskFromState, RemoveDirectory
  <2>2. file' \in (SUBSET Msgs) \union {NoFile} /\ item' \in BOOLEAN /\ deleted' \in BOOLEAN
    BY <1>1 DEF PersistenceTypeOK, CloseEnds, SwitchTab, DeleteTask, DeleteTaskFromState,
                RemoveDirectory, stored
  <2>3. clicks' \in 0..Clicks
    BY <1>1, <1>4, ClicksGo DEF PersistenceTypeOK
  <2>4. screen' \in 0..MaxInsts /\ tab' \in 0..MaxInsts
    BY <1>1, <1>4, HistoryAssumption DEF PersistenceTypeOK
  <2> QED
    BY <1>1, <1>4, <1>6, <2>1, <2>2, <2>3, <2>4 DEF PersistenceTypeOK, Saves, Save
<1> QED
  BY <1>2, <1>3, <1>5, <1>6, <1>7 DEF IInv

LEMMA PersistenceInit == HistoryInit => IInv
<1> SUFFICES ASSUME HistoryInit PROVE IInv
  OBVIOUS
<1>1. PersistenceTypeOK
  <2>1. save \in Saves
    BY NoSaveTyped DEF HistoryInit, Saves
  <2>2. inst \in [Insts -> Loading \union {"unborn", "running", "ended", "failed"}]
    BY DEF HistoryInit
  <2>3. screen \in 0..MaxInsts /\ tab \in 0..MaxInsts /\ lock \in 0..MaxSaves /\ clicks \in 0..Clicks
    BY HistoryAssumption DEF HistoryInit
  <2>4. mem \in [Insts -> [Arrays -> SUBSET Msgs]] /\ cur \in [Insts -> Arrays]
    BY DEF HistoryInit, Arrays
  <2> QED
    BY <2>1, <2>2, <2>3, <2>4 DEF HistoryInit, PersistenceTypeOK, Saves, Save
<1>2. IsNewest(1) /\ 1 \in Insts
  BY HistoryAssumption DEF HistoryInit, IsNewest, Born, Insts
<1>3. Newest = 1
  BY <1>2, NewestIs
<1>4. StageInv
  BY <1>2 DEF HistoryInit, StageInv, Reading
<1>5. PlaceInv
  BY <1>2, <1>3 DEF HistoryInit, PlaceInv, Born
<1>6. SaveInv
  BY NoSaveTyped DEF HistoryInit, SaveInv, Waits, Slots, Owning
<1> QED
  BY <1>1, <1>4, <1>5, <1>6 DEF IInv

LEMMA PersistenceStep == IInv /\ [HistoryNext]_persistVars => IInv'
<1> SUFFICES ASSUME IInv, [HistoryNext]_persistVars PROVE IInv'
  OBVIOUS
<1>1. CASE Saving
  BY <1>1, SavingKeeps DEF Saving, Writes
<1>2. CASE Tasks
  BY <1>2, StepsKeep DEF Tasks, Steps
<1>3. CASE Provider
  <2>1. screen = 0 \/ screen # 0
    OBVIOUS
  <2> QED
    BY <1>3, <2>1, ProviderAborts, ProviderCreates, ProviderRests DEF Provider
<1>4. CASE UNCHANGED persistVars
  <2>1. UNCHANGED <<file, item, lock, save, mem, cur, inst, aborted, abandoned, screen, tab, op,
                    said, exposed, deleted, clicks>>
    BY <1>4 DEF persistVars
  <2>2. Newest' = Newest
    BY <2>1, NewestStays DEF IInv, Born
  <2>3. PersistenceTypeOK' /\ StageInv'
    BY <2>1 DEF IInv, PersistenceTypeOK, StageInv, IsNewest, Born
  <2>4. PlaceInv' /\ SaveInv'
    BY <2>1, <2>2 DEF IInv, PlaceInv, SaveInv, Waits, Born
  <2> QED
    BY <2>3, <2>4 DEF IInv
<1> QED
  BY <1>1, <1>2, <1>3, <1>4 DEF HistoryNext

\* An instance that has loaded its history does not load it again, and only
\* such an instance shows a message.
LEMMA ShowStep == IInv /\ ShowInv /\ [HistoryNext]_persistVars => ShowInv'
<1> SUFFICES ASSUME IInv, ShowInv, [HistoryNext]_persistVars PROVE ShowInv'
  OBVIOUS
<1>1. /\ PersistenceTypeOK /\ save \in Saves /\ inst \in [Insts -> Stages \union {"unborn"}]
      /\ cur \in [Insts -> Arrays]
  BY DEF IInv, PersistenceTypeOK, Saves, Save, Stages
<1>2. ASSUME NEW k \in Slots, save[k].at = "shown" PROVE save[k].by \in Insts /\ inst[save[k].by] \in HasHistory
  BY <1>2, BornOnes DEF IInv, SaveInv, Waits, ShowInv
<1>3. ASSUME \A k \in Slots : save'[k].at = "shown" => save'[k] = save[k],
             \A i \in Insts : inst[i] \in HasHistory => inst'[i] \in HasHistory
      PROVE  ShowInv'
  BY <1>2, <1>3 DEF ShowInv
<1>4. CASE Saving
  <2>1. PICK k \in Slots : Shown(k) \/ Writes(k)
    BY <1>4 DEF Saving, Writes
  <2>2. /\ \A l \in Slots : l # k => save'[l] = save[l]
        /\ save'[k].at # "shown" /\ inst' = inst
    <3>1. CASE Shown(k) \/ Lock(k) \/ Backup(k) \/ Commit(k)
      BY <1>1, <2>1, <3>1 DEF Shown, Lock, Backup, Commit, Saves, Save
    <3>2. CASE GiveUp(k) \/ UpdateTaskHistory(k)
      BY <1>1, <2>1, <3>2, NoSaveTyped DEF GiveUp, UpdateTaskHistory, Saves
    <3>3. CASE Unlock(k)
      BY <1>1, <2>1, <3>3 DEF Unlock, Saves, NoSave
    <3> QED
      BY <2>1, <3>1, <3>2, <3>3 DEF Writes
  <2> QED
    BY <1>3, <2>2
<1>5. CASE Tasks
  <2>1. PICK i \in Insts : Steps(i)
    BY <1>5 DEF Tasks, Steps
  <2>2. PICK x \in Stages, c \in Arrays : OneInstance(i, x, c)
    BY <2>1, InstanceSteps
  <2>3. inst'[i] = x /\ \A j \in Insts : inst[j] \in HasHistory => inst'[j] \in HasHistory
    BY <1>1, <2>2 DEF OneInstance
  <2>4. CASE save' = save
    BY <1>3, <2>3, <2>4
  <2>5. CASE \E f \in Ways : \E k \in Slots : BeginSave(k, i, c, f)
    <3>1. \A k \in Slots : save'[k].at = "shown" => save'[k] = save[k]
      BY <1>1, <2>5 DEF BeginSave, Saves
    <3> QED
      BY <1>3, <2>3, <3>1
  <2>6. CASE x \in HasHistory /\ \E k \in Slots : BeginShowing(k, i)
    <3>1. PICK k \in Slots : save'[k].by = i /\ \A l \in Slots : l # k => save'[l] = save[l]
      BY <1>1, <2>6 DEF BeginShowing, NoSave, Saves
    <3> QED
      BY <1>2, <2>3, <2>6, <3>1 DEF ShowInv
  <2> QED
    BY <2>2, <2>4, <2>5, <2>6 DEF OneInstance
<1>6. CASE CancelTask \/ RemoveClineFromStack \/ (\E i \in Insts : CloseTask(i)) \/ (DeleteTask /\ screen # 0)
  <2>1. PICK n \in Insts : Aborts(n)
    BY <1>6, ProviderAborts, BornOnes
  <2>2. \A k \in Slots : save'[k].at = "shown" => save'[k] = save[k]
    BY <1>1, <2>1 DEF Aborts, BeginSave, Saves
  <2> QED
    BY <1>3, <2>1, <2>2 DEF Aborts
<1>7. CASE CreateTask \/ ShowTask
  <2>1. NewInstance /\ save' = save
    BY <1>7 DEF CreateTask, ShowTask
  <2>2. PICK n : n = Newest + 1
    OBVIOUS
  <2>3. inst[n] = "unborn" /\ \A i \in Insts : i # n => inst'[i] = inst[i]
    BY <2>1, <2>2, NewestMade DEF IInv
  <2> QED
    BY <1>3, <2>1, <2>3 DEF HasHistory
<1>8. CASE \/ CloseEnds \/ SwitchTab \/ (DeleteTask /\ screen = 0)
           \/ DeleteTaskFromState \/ RemoveDirectory
  <2>1. inst' = inst
    BY <1>8 DEF CloseEnds, SwitchTab, DeleteTask, DeleteTaskFromState, RemoveDirectory
  <2>2. \A k \in Slots : save'[k].at = "shown" => save'[k] = save[k]
    <3>1. CASE save' = save
      BY <3>1
    <3>2. CASE RemoveDirectory
      BY <1>1, <3>2, RemainsIs DEF RemoveDirectory, Saves
    <3> QED
      BY <1>8, <3>1, <3>2 DEF CloseEnds, SwitchTab, DeleteTask, DeleteTaskFromState
  <2> QED
    BY <1>3, <2>1, <2>2
<1>9. CASE UNCHANGED persistVars
  BY <1>3, <1>9 DEF persistVars
<1>10. CASE Provider
  <2>1. screen = 0 \/ screen # 0
    OBVIOUS
  <2> QED
    BY <1>6, <1>7, <1>8, <1>10, <2>1 DEF Provider
<1> QED
  BY <1>4, <1>5, <1>9, <1>10 DEF HistoryNext

----------------------------------------------------------------------------
(* A save that is bound to be an exposure stays one until it is            *)

LEMMA DoomStays ==
    ASSUME IInv, IInv', Newest' = Newest \/ Newest' = Newest + 1,
           \A i \in Insts : cur'[i] >= cur[i],
           \A k \in Slots : Waits(k) => \/ save'[k] = save[k]
                                        \/ ~Stray(k)
                                        \/ save[k].at = "shown" /\ Waits(k)' /\ save'[k].by = save[k].by
    PROVE  Doomed => Doomed'
<1> SUFFICES ASSUME Doomed PROVE Doomed'
  OBVIOUS
<1>1. PICK k \in Slots : Waits(k) /\ Stray(k)
  BY DEF Doomed
<1>2. PICK n \in Insts : n = Newest /\ n \in Nat
  BY BornOnes
<1>3. PICK b \in 1..n : b = save[k].by /\ save[k].arr <= cur[b] /\ b \in Insts
  BY <1>1, <1>2, BornOnes DEF IInv, SaveInv
<1>4. /\ cur[b] \in Nat /\ cur'[b] \in Nat /\ cur'[b] >= cur[b] /\ save[k].arr \in Nat
      /\ Waits(k)' /\ save'[k].by = b
      /\ save[k].at = "lock" => save'[k] = save[k]
  <2>1. cur \in [Insts -> Arrays] /\ cur' \in [Insts -> Arrays] /\ save \in Saves
    BY DEF IInv, PersistenceTypeOK, Saves, Save
  <2>2. cur[b] \in Arrays /\ cur'[b] \in Arrays /\ save[k].arr \in Arrays
    BY <1>3, <2>1 DEF Saves, Save
  <2> QED
    BY <1>1, <1>3, <2>2 DEF Arrays, Waits
<1>5. CASE b # Newest'
  BY <1>4, <1>5 DEF Doomed, Stray
<1>6. CASE b = Newest'
  <2>1. b = n
    BY <1>2, <1>3, <1>6
  <2>2. save[k].at = "lock" /\ save[k].arr # cur[b]
    BY <1>1, <1>2, <1>3, <2>1 DEF Stray
  <2>3. save[k].arr # cur'[b]
    BY <1>3, <1>4, <2>2
  <2> QED
    BY <1>4, <1>6, <2>2, <2>3 DEF Doomed, Stray
<1> QED
  BY <1>5, <1>6

\* When nothing that waits is bound to be an exposure, what waits for the lock is
\* a save of the array that the newest instance has.
LEMMA CalmSaves ==
    ASSUME ~Doomed, NEW k \in Slots, Waits(k)
    PROVE  save[k].by = Newest /\ (save[k].at = "lock" => save[k].arr = cur[Newest])
BY DEF Doomed, Stray

LEMMA WholeStays ==
    ASSUME NEW n, Whole(n), UNCHANGED <<file, item, lock, save, said>>,
           mem'[n] = mem[n], cur'[n] = cur[n], inst'[n] = inst[n]
    PROVE  Whole(n)'
<1>1. Disk' = Disk /\ (Untouched' <=> Untouched) /\ (Pending' <=> Pending) /\ Messages(n)' = Messages(n)
      /\ \A k \in Slots : Waits(k)' <=> Waits(k)
  BY DEF Disk, Writing, Untouched, Pending, Waits, Messages
<1> QED
  BY <1>1 DEF Whole, Writing

----------------------------------------------------------------------------
(* A save                                                                  *)

LEMMA SavingWhole ==
    ASSUME IInv, ~Doomed, NEW n, n = Newest, Whole(n), ~exposed', NEW k \in Slots,
           Shown(k) \/ Writes(k)
    PROVE  Whole(n)'
<1>1. /\ save \in Saves /\ save[k] \in Save /\ k # 0 /\ SaveInv
      /\ inst[n] \in {"exists", "read", "overwrite", "reread", "running", "ended"}
      /\ inst[n] \notin Reading => Messages(n) = said
      /\ UNCHANGED <<mem, cur, said, inst>>
  <2>1. n \in Insts /\ inst[n] # "unborn" /\ inst[n] # "failed"
    BY NewestExists DEF IInv, IsNewest, Born, Whole
  <2> QED
    BY <2>1 DEF IInv, PersistenceTypeOK, Saves, Save, Slots, Whole, Reading, Loading,
                Shown, Writes, Lock, GiveUp, Backup, Commit, Unlock, UpdateTaskHistory, held
<1>2. Messages(n)' = Messages(n)
  BY <1>1 DEF Messages
<1>3. SUFFICES /\ inst[n] = "read" => ~Writing'
               /\ inst[n] \in Reading => ~Untouched'
               /\ \A l \in Slots : Waits(l)' => Waits(l) /\ save'[l].by = save[l].by
               /\ Disk' = said \/ Pending'
  BY <1>1, <1>2 DEF Whole
<1>3a. CASE Shown(k)
  <2>1. /\ save[k].at = "shown" /\ UNCHANGED <<file, item, lock>>
        /\ save' = [save EXCEPT ![k].at = "lock", ![k].arr = cur[save[k].by]]
    BY <1>3a DEF Shown, stored
  <2>2. /\ save'[k].at = "lock" /\ save'[k].by = save[k].by
        /\ \A l \in Slots : l # k => save'[l] = save[l]
    BY <1>1, <2>1 DEF Saves, Save
  <2>3. /\ Waits(k) /\ Waits(k)' /\ Pending'
        /\ \A l \in Slots : Waits(l)' => Waits(l) /\ save'[l].by = save[l].by
    BY <2>1, <2>2 DEF Pending, Waits
  <2>4. save[k].by = n /\ inst[n] \notin Reading
    BY <2>3, CalmSaves DEF Whole
  <2> QED
    BY <2>3, <2>4 DEF Reading
<1>4. CASE Lock(k)
  <2>1. /\ lock' = k /\ Waits(k) /\ save[k].at = "lock"
        /\ save' = [save EXCEPT ![k].at = "backup", ![k].data = mem[save[k].by][save[k].arr]]
    BY <1>4 DEF Lock, Waits
  <2>2. save[k].by = n /\ save[k].arr = cur[n]
    BY <2>1, CalmSaves
  <2>3. inst[n] \notin Reading
    BY <2>1, <2>2 DEF Whole
  <2>4. save'[k].at = "backup" /\ save'[k].data = said /\ \A l \in Slots : l # k => save'[l] = save[l]
    BY <1>1, <2>1, <2>2, <2>3 DEF Messages, Saves, Save
  <2>5. Disk' = said
    BY <2>1, <2>4, <1>1 DEF Disk, Writing
  <2> QED
    BY <1>1, <2>1, <2>3, <2>4, <2>5 DEF Waits, Reading
<1>5. CASE GiveUp(k)
  BY <1>5 DEF GiveUp
<1>6. CASE Backup(k)
  <2>1. /\ lock' = lock /\ lock = k /\ save[k].at = "backup"
        /\ save' = [save EXCEPT ![k].at = "commit"]
    BY <1>1, <1>6 DEF Backup, SaveInv, Owning
  <2>2. save'[k].at = "commit" /\ save'[k].data = save[k].data
        /\ \A l \in Slots : l # k => save'[l] = save[l]
    BY <1>1, <2>1 DEF Saves, Save
  <2>3. Writing /\ Disk' = Disk /\ ~Untouched /\ ~Untouched'
    BY <1>1, <2>1, <2>2 DEF Disk, Untouched, Writing
  <2>4. Disk = said \/ Pending
    BY <2>3 DEF Whole
  <2>5. Pending => Pending'
    BY <2>1, <2>2 DEF Pending, Waits
  <2> QED
    BY <1>1, <2>1, <2>2, <2>3, <2>4, <2>5 DEF Waits, Whole
<1>7. CASE Commit(k)
  <2>1. /\ lock' = lock /\ lock = k /\ save[k].at = "commit" /\ file' = save[k].data
        /\ save' = [save EXCEPT ![k].at = "unlock"]
    BY <1>1, <1>7 DEF Commit, SaveInv, Owning
  <2>2. save'[k].at = "unlock" /\ \A l \in Slots : l # k => save'[l] = save[l]
    BY <1>1, <2>1 DEF Saves, Save
  <2>3. Writing /\ ~Writing' /\ Disk' = Disk /\ ~Untouched /\ ~Untouched'
    BY <1>1, <2>1, <2>2 DEF Disk, Untouched, Writing
  <2>4. Disk = said \/ Pending
    BY <2>3 DEF Whole
  <2>5. Pending => Pending'
    BY <2>1, <2>2 DEF Pending, Waits
  <2> QED
    BY <2>1, <2>2, <2>3, <2>4, <2>5 DEF Waits
<1>7a. CASE Unlock(k)
  <2>1. /\ lock' = 0 /\ lock = k /\ save[k].at = "unlock" /\ file' = file
        /\ save' = [save EXCEPT ![k] = [NoSave EXCEPT !.at = "item", !.for = save[k].for]]
    BY <1>1, <1>7a DEF Unlock, SaveInv, Owning
  <2>2. save'[k].at = "item" /\ \A l \in Slots : l # k => save'[l] = save[l]
    BY <1>1, <2>1 DEF Saves, NoSave
  <2>3. ~Writing' /\ Disk' = Disk /\ ~Untouched /\ ~Untouched'
    BY <1>1, <2>1, <2>2 DEF Disk, Untouched, Writing
  <2>4. Disk = said \/ Pending
    BY <2>3 DEF Whole
  <2>5. Pending => Pending'
    BY <2>1, <2>2 DEF Pending, Waits
  <2> QED
    BY <2>1, <2>2, <2>3, <2>4, <2>5 DEF Waits
<1>8. CASE UpdateTaskHistory(k)
  <2>1. /\ lock' = lock /\ file' = file /\ save[k].at = "item" /\ item' = TRUE
        /\ save' = [save EXCEPT ![k] = NoSave]
    BY <1>8 DEF UpdateTaskHistory
  <2>2. save'[k] = NoSave /\ NoSave.at = "none" /\ \A l \in Slots : l # k => save'[l] = save[l]
    BY <1>1, <2>1, NoSaveTyped DEF Saves
  <2>3. lock # k /\ lock \in Slots \union {0}
    BY <1>1, <2>1 DEF SaveInv, Owning, IInv, PersistenceTypeOK, Slots
  <2>4. (Writing' <=> Writing) /\ Disk' = Disk /\ ~Untouched /\ ~Untouched'
    BY <1>1, <2>1, <2>2, <2>3 DEF Disk, Untouched, Writing
  <2>5. Disk = said \/ Pending
    BY <2>4 DEF Whole
  <2>6. Pending => Pending'
    BY <2>1, <2>2 DEF Pending, Waits
  <2> QED
    BY <2>1, <2>2, <2>4, <2>5, <2>6 DEF Waits, Whole
<1> QED
  BY <1>3a, <1>4, <1>5, <1>6, <1>7, <1>7a, <1>8 DEF Writes

----------------------------------------------------------------------------
(* An instance                                                             *)

\* A save that begins is of its instance, and of the array that it has when the
\* message was shown.
LEMMA BegunSave ==
    ASSUME save \in Saves, NEW i \in Insts, NEW a \in Arrays, Begins(i, a)
    PROVE  /\ \E k \in Slots : Waits(k)' /\ save'[k].by = i
           /\ Pending'
<1>1. PICK k \in Slots : Begun(save'[k], i, a)
  BY SaveBegins
<1>2. Waits(k)' /\ save'[k].by = i
  BY <1>1 DEF Begun, Waits
<1> QED
  BY <1>2 DEF Pending

\* An older one is aborted: it says nothing, and each save it begins is bound to
\* be an exposure.
LEMMA OldWhole ==
    ASSUME IInv, NEW n, n = Newest, Whole(n), ~Doomed', NEW i \in Insts, i # n, Steps(i)
    PROVE  Whole(n)'
<1>1. /\ Newest' = n /\ n \in Insts /\ save \in Saves
      /\ cur \in [Insts -> Arrays] /\ mem \in [Insts -> [Arrays -> SUBSET Msgs]]
      /\ cur[i] \in Arrays
  BY StepsKeep, BornOnes DEF IInv, PersistenceTypeOK, Saves, Save
<1>2. ~\E a \in Arrays : Begins(i, a)
  BY <1>1, BegunSave DEF Doomed, Stray
<1>3. PICK x \in Stages, c \in Arrays : OneInstance(i, x, c)
  BY InstanceSteps
<1>4. /\ UNCHANGED <<file, item, lock, save>>
      /\ inst'[n] = inst[n] /\ cur'[n] = cur[n]
  <2>1. save' = save
    BY <1>2, <1>3 DEF OneInstance, Begins, Ways
  <2>2. inst \in [Insts -> Stages \union {"unborn"}]
    BY DEF IInv, PersistenceTypeOK, Stages
  <2> QED
    BY <1>1, <1>3, <2>1, <2>2 DEF OneInstance
<1>5. \A m \in Msgs : ~AddToClineMessages(i, m)
  BY <1>1, <1>2 DEF AddToClineMessages, Begins
<1>6. \A kept \in SUBSET Msgs : ~DeleteMessages(i, kept)
  BY <1>2 DEF DeleteMessages, Begins, Arrays
<1>7. said' = said /\ mem'[n] = mem[n]
  BY <1>1, <1>5, <1>6 DEF Steps, StreamAborts, FileExists, ReadFile, Overwrite, Reread, held
<1> QED
  BY <1>4, <1>7, WholeStays

LEMMA NewestWhole ==
    ASSUME IInv, ShowInv, ~Doomed, ~Doomed', ~exposed', NEW n, n = Newest, Whole(n), Steps(n)
    PROVE  Whole(n)'
<1>1. /\ Newest' = n /\ n \in Insts /\ save \in Saves /\ inst[n] # "unborn"
      /\ cur \in [Insts -> Arrays] /\ mem \in [Insts -> [Arrays -> SUBSET Msgs]]
      /\ inst \in [Insts -> Stages \union {"unborn"}]
      /\ cur[n] \in Arrays /\ 3 \in Arrays /\ 2 \in Arrays /\ 1 \in Arrays
      /\ inst[n] = "reread" => cur[n] = 1
      /\ said \subseteq Msgs /\ NoFile # said
      /\ file \in SUBSET Msgs \/ file = NoFile
  <2>1. Newest' = n
    BY NewestExists, StepsKeep DEF IInv
  <2>2. n \in Insts /\ IsNewest(n)
    BY NewestExists DEF IInv
  <2> QED
    BY <2>1, <2>2, HistoryAssumption
       DEF IInv, PersistenceTypeOK, StageInv, Saves, Save, Stages, Arrays, IsNewest, Born
\* While it reads, nothing is saved, and the file is what it is to be.
<1>2. ASSUME inst[n] \in Reading
      PROVE  ~Pending /\ Disk = said /\ ~Untouched /\ \A k \in Slots : ~Waits(k)
  <2>1. \A k \in Slots : ~Waits(k)
    BY <1>2, CalmSaves DEF Whole
  <2> QED
    BY <1>2, <2>1 DEF Pending, Whole
<1>3. ASSUME NEW a \in Arrays, Begins(n, a) PROVE Pending'
  BY <1>1, <1>3, BegunSave
<1>4. ASSUME NEW m \in Msgs, AddToClineMessages(n, m) PROVE Whole(n)'
  <2>1. /\ inst[n] = "running" /\ inst' = inst /\ cur' = cur /\ said' = said \union {m}
        /\ mem' = [mem EXCEPT ![n][cur[n]] = @ \union {m}]
    BY <1>4 DEF AddToClineMessages, Says
  <2>2. Messages(n)' = said'
    BY <1>1, <2>1 DEF Messages, Whole
  <2>3. Pending'
    BY <1>1, <1>3, <1>4 DEF AddToClineMessages, Begins
  <2> QED
    BY <2>1, <2>2, <2>3 DEF Whole, Reading
<1>5. ASSUME NEW kept \in SUBSET Msgs, DeleteMessages(n, kept) PROVE Whole(n)'
  <2>1. /\ inst[n] = "running" /\ inst' = inst /\ cur' = [cur EXCEPT ![n] = 3] /\ said' = kept
        /\ mem' = [mem EXCEPT ![n][3] = kept]
    BY <1>5 DEF DeleteMessages, Says
  <2>2. Messages(n)' = said'
    BY <1>1, <2>1 DEF Messages
  <2>3. Pending'
    BY <1>1, <1>3, <1>5 DEF DeleteMessages, Begins
  <2> QED
    BY <2>1, <2>2, <2>3 DEF Whole, Reading
<1>6. CASE StreamAborts(n)
  <2>1. /\ inst[n] = "running" /\ inst'[n] = "ended"
        /\ UNCHANGED <<file, item, lock, mem, cur, said>>
    BY <1>1, <1>6 DEF StreamAborts, stored, held
  <2>2. Messages(n)' = said'
    BY <2>1 DEF Messages, Whole
  <2>3. Pending' \/ save' = save
    BY <1>1, <1>3, <1>6 DEF StreamAborts, Begins
  <2>4. Pending' \/ Disk' = said' \/ Untouched'
    BY <2>1, <2>3 DEF Whole, Pending, Waits, Disk, Writing, Untouched
  <2> QED
    BY <2>1, <2>2, <2>4 DEF Whole, Reading
<1>7. CASE FileExists(n)
  <2>1. /\ inst[n] = "exists" /\ ~Writing /\ UNCHANGED <<file, item, lock, save, mem, cur, said>>
        /\ inst' = [inst EXCEPT ![n] = IF file = NoFile THEN "overwrite" ELSE "read"]
    BY <1>7 DEF FileExists, stored, held
  <2>2. file = said /\ ~Untouched /\ ~Pending /\ \A k \in Slots : ~Waits(k)
    BY <1>2, <2>1 DEF Reading, Disk
  <2>3. inst'[n] = "read"
    BY <1>1, <2>1, <2>2
  <2>4. ~Writing' /\ Disk' = said' /\ ~Untouched' /\ \A k \in Slots : ~Waits(k)'
    BY <2>1, <2>2 DEF Disk, Writing, Untouched, Waits
  <2> QED
    BY <2>1, <2>3, <2>4 DEF Whole, Reading
<1>8. CASE ReadFile(n)
  <2>1. inst[n] = "read" /\ ~Writing /\ UNCHANGED <<file, item, lock, save, cur, said>>
    BY <1>8 DEF ReadFile, Whole, stored
  <2>2. file = said /\ ~Untouched /\ ~Pending /\ \A k \in Slots : ~Waits(k)
    BY <1>2, <2>1 DEF Reading, Disk
  <2>3. inst'[n] = "overwrite" /\ mem'[n][1] = said
    BY <1>1, <1>8, <2>2 DEF ReadFile
  <2>4. ~Writing' /\ Disk' = said' /\ ~Untouched' /\ \A k \in Slots : ~Waits(k)'
    BY <2>1, <2>2 DEF Disk, Writing, Untouched, Waits
  <2> QED
    BY <2>1, <2>3, <2>4 DEF Whole, Reading
<1>9. CASE Overwrite(n)
  <2>1. /\ inst[n] = "overwrite" /\ inst'[n] = "reread" /\ cur'[n] = 1
        /\ UNCHANGED <<mem, said>>
    BY <1>1, <1>9 DEF Overwrite
  <2>2. Messages(n)' = said'
    BY <2>1 DEF Messages, Whole
  <2>3. Pending'
    BY <1>1, <1>3, <1>9 DEF Overwrite, Begins
  <2> QED
    BY <2>1, <2>2, <2>3 DEF Whole, Reading
<1>10. CASE Reread(n)
  <2>1. /\ inst[n] = "reread" /\ ~Writing /\ UNCHANGED <<file, item, lock, save, said>>
        /\ inst'[n] \in {"ended", "running"} /\ cur' = [cur EXCEPT ![n] = 2]
        /\ mem' = [mem EXCEPT ![n][2] = IF file = NoFile THEN {} ELSE file]
    BY <1>1, <1>10 DEF Reread, stored
  <2>2. ~Pending
    <3>1. ASSUME NEW k \in Slots, Waits(k) PROVE FALSE
      <4>1. save[k].by = n /\ Waits(k)' /\ save'[k] = save[k] /\ cur'[n] = 2
        BY <1>1, <2>1, <3>1, CalmSaves DEF Waits
      <4>2. save[k].at = "lock"
        BY <2>1, <3>1, <4>1 DEF ShowInv, HasHistory, Waits
      <4>3. save[k].arr = 1
        BY <1>1, <2>1, <3>1, <4>2, CalmSaves
      <4> QED
        BY <1>1, <4>1, <4>2, <4>3 DEF Doomed, Stray
    <3> QED
      BY <3>1 DEF Pending
  <2>3. file = said \/ Untouched
    BY <2>1, <2>2 DEF Whole, Disk
  <2>4. Messages(n)' = said'
    BY <1>1, <2>1, <2>3 DEF Messages, Untouched
  <2>5. Disk' = said' \/ Untouched'
    BY <2>1, <2>3 DEF Disk, Writing, Untouched
  <2> QED
    BY <2>1, <2>4, <2>5 DEF Whole, Reading
<1> QED
  BY <1>4, <1>5, <1>6, <1>7, <1>8, <1>9, <1>10 DEF Steps

----------------------------------------------------------------------------
(* The provider                                                            *)

LEMMA AbortsWhole ==
    ASSUME IInv, ~exposed', NEW n, n = Newest, Whole(n),
           CancelTask \/ RemoveClineFromStack \/ (\E i \in Insts : CloseTask(i)) \/ (DeleteTask /\ screen # 0)
    PROVE  Whole(n)'
<1>1. /\ Aborts(n) /\ n \in Insts /\ save \in Saves /\ cur \in [Insts -> Arrays]
      /\ UNCHANGED <<file, item, lock, mem, cur, said, inst>>
  BY ProviderAborts, BornOnes
     DEF IInv, PersistenceTypeOK, Saves, Save, CancelTask, RemoveClineFromStack, CloseTask, DeleteTask,
         stored, held
<1>2. inst[n] \notin Reading
  <2>1. ASSUME NEW i \in {screen, tab} \ {0}, NEW f, AbortTask(i, f, {i}) PROVE inst[n] \notin Reading
    <3>1. i = n
      BY <2>1 DEF IInv, PlaceInv
    <3> QED
      BY <2>1, <3>1 DEF AbortTask, Reading
  <2> QED
    BY <2>1 DEF CancelTask, RemoveClineFromStack, CloseTask, DeleteTask, IInv, PlaceInv
<1>3. Pending' \/ save' = save
  BY <1>1, BegunSave DEF Aborts, Begins, Ways
<1>4. Pending' \/ Disk' = said' \/ Untouched'
  BY <1>1, <1>3 DEF Whole, Pending, Waits, Disk, Writing, Untouched
<1>5. Messages(n)' = Messages(n)
  BY <1>1 DEF Messages
<1> QED
  BY <1>1, <1>2, <1>4, <1>5 DEF Whole, Reading

LEMMA CreatesWhole ==
    ASSUME IInv, ~Doomed, ~Doomed', Whole(Newest), CreateTask \/ ShowTask
    PROVE  \A m \in Insts : m = Newest' => Whole(m)'
<1>1. PICK n \in Insts : /\ n = Newest /\ Newest' = n + 1 /\ n \in Nat /\ n # n + 1
                         /\ n + 1 \in Insts /\ inst'[n + 1] = "exists" /\ item
  BY ProviderCreates, BornOnes, NewestMade DEF IInv, CreateTask, ShowTask
<1>2. UNCHANGED <<file, item, lock, save, said>>
  BY DEF CreateTask, ShowTask, stored, held
<1>3. ASSUME NEW k \in Slots, Waits(k) PROVE FALSE
  <2>1. save[k].by = n /\ Waits(k)' /\ save'[k] = save[k]
    BY <1>1, <1>2, <1>3, CalmSaves DEF Waits
  <2> QED
    BY <1>1, <2>1 DEF Doomed, Stray
<1>4. Disk = said
  BY <1>1, <1>3 DEF Whole, Untouched, Pending
<1>5. Disk' = said' /\ ~Untouched' /\ \A k \in Slots : ~Waits(k)'
  BY <1>1, <1>2, <1>3, <1>4 DEF Disk, Writing, Untouched, Waits
<1>6. Whole(n + 1)'
  BY <1>1, <1>5 DEF Whole
<1> QED
  BY <1>1, <1>6

LEMMA RestsWhole ==
    ASSUME IInv, ~Doomed, ~deleted', NEW n, n = Newest, Whole(n),
           \/ CloseEnds \/ SwitchTab \/ (DeleteTask /\ screen = 0)
           \/ DeleteTaskFromState \/ RemoveDirectory
    PROVE  Whole(n)'
<1>1. UNCHANGED <<mem, cur, inst, said>>
  BY DEF CloseEnds, SwitchTab, DeleteTask, DeleteTaskFromState, RemoveDirectory, held
<1>2. CASE CloseEnds \/ SwitchTab \/ (DeleteTask /\ screen = 0)
  <2>1. UNCHANGED <<file, item, lock, save>>
    BY <1>2 DEF CloseEnds, SwitchTab, DeleteTask, stored
  <2> QED
    BY <1>1, <2>1, WholeStays
<1>3. CASE DeleteTaskFromState
  <2>1. UNCHANGED <<file, lock, save>> /\ item' = FALSE
    BY <1>3 DEF DeleteTaskFromState
  <2>2. /\ Disk' = Disk /\ (Untouched => Untouched') /\ (Pending' <=> Pending) /\ Messages(n)' = Messages(n)
        /\ \A k \in Slots : Waits(k)' <=> Waits(k)
    BY <1>1, <2>1 DEF Disk, Writing, Untouched, Pending, Waits, Messages
  <2>3. ASSUME inst[n] \in Reading PROVE ~Untouched'
    <3>1. Disk = said
      BY <2>3, CalmSaves DEF Whole, Pending
    <3>2. said # NoFile
      BY HistoryAssumption DEF IInv, PersistenceTypeOK
    <3> QED
      BY <1>1, <2>1, <3>1, <3>2 DEF Untouched, Disk, Writing
  <2> QED
    BY <1>1, <2>1, <2>2, <2>3 DEF Whole, Writing
<1>4. CASE RemoveDirectory
  BY <1>4 DEF RemoveDirectory
<1> QED
  BY <1>2, <1>3, <1>4

----------------------------------------------------------------------------
(* The theorems                                                            *)

LEMMA StepMovesOn ==
    ASSUME IInv, [HistoryNext]_persistVars, ~exposed'
    PROVE  /\ Newest' = Newest \/ Newest' = Newest + 1
           /\ \A i \in Insts : cur'[i] >= cur[i]
           /\ ~exposed /\ (deleted => deleted')
           /\ Doomed => Doomed'
<1>1. /\ PersistenceTypeOK /\ save \in Saves /\ cur \in [Insts -> Arrays]
      /\ exposed \in BOOLEAN /\ deleted \in BOOLEAN /\ \A i \in Insts : cur[i] \in Nat
  BY DEF IInv, PersistenceTypeOK, Saves, Save, Arrays
<1>2. IInv'
  BY PersistenceStep
<1>3. CASE Saving
  <2>1. PICK k \in Slots : Shown(k) \/ Writes(k)
    BY <1>3 DEF Saving, Writes
  <2>2. UNCHANGED <<inst, cur, deleted>> /\ ~exposed
    BY <1>1, <2>1 DEF Shown, Writes, Lock, GiveUp, Backup, Commit, Unlock, UpdateTaskHistory, held
  <2>3. Newest' = Newest
    BY <2>2, NewestStays DEF IInv, Born
  <2>4. ASSUME NEW l \in Slots, Waits(l)
        PROVE  \/ save'[l] = save[l]
               \/ ~Stray(l)
               \/ save[l].at = "shown" /\ Waits(l)' /\ save'[l].by = save[l].by
    <3>1. CASE l # k
      BY <1>1, <2>1, <3>1 DEF Shown, Writes, Lock, GiveUp, Backup, Commit, Unlock, UpdateTaskHistory, Saves
    <3>2. CASE l = k
      <4>1. Shown(k) \/ Lock(k)
        BY <2>1, <2>4, <3>2 DEF Waits, Writes, GiveUp, Backup, Commit, Unlock, UpdateTaskHistory
      <4>2. CASE Lock(k)
        BY <3>2, <4>2 DEF Lock, Stray
      <4>3. CASE Shown(k)
        <5>1. save'[k].at = "lock" /\ save'[k].by = save[k].by /\ save[k].at = "shown"
          BY <1>1, <4>3 DEF Shown, Saves, Save
        <5> QED
          BY <3>2, <5>1 DEF Waits
      <4> QED
        BY <4>1, <4>2, <4>3
    <3> QED
      BY <3>1, <3>2
  <2>5. \A i \in Insts : cur'[i] >= cur[i]
    BY <1>1, <2>2
  <2> QED
    BY <1>2, <2>2, <2>3, <2>4, <2>5, DoomStays
<1>4. ASSUME NEW i \in Insts, NEW a \in Arrays, save' = save \/ Begins(i, a)
      PROVE  \A l \in Slots : Waits(l) => save'[l] = save[l]
  <2>1. CASE Begins(i, a)
    <3>1. PICK k \in Slots : save[k] = NoSave /\ \A l \in Slots : l # k => save'[l] = save[l]
      BY <1>1, <2>1, SaveBegins
    <3> QED
      BY <3>1, NoSaveTyped DEF Waits
  <2> QED
    BY <1>4, <2>1
<1>5. CASE Tasks
  <2>1. PICK i \in Insts : Steps(i)
    BY <1>5 DEF Tasks, Steps
  <2>2. PICK x \in Stages, c \in Arrays : OneInstance(i, x, c)
    BY <2>1, InstanceSteps
  <2>3. Newest' = Newest
    BY <2>1, StepsKeep
  <2>4. \A j \in Insts : cur'[j] >= cur[j]
    BY <1>1, <2>2 DEF OneInstance, Arrays
  <2>5. \A l \in Slots : Waits(l) => save'[l] = save[l]
    BY <1>4, <2>2 DEF OneInstance, Begins, Ways
  <2>6. ~exposed
    BY <2>1 DEF Steps, AddToClineMessages, DeleteMessages, StreamAborts, FileExists, ReadFile,
                Overwrite, Reread
  <2>7. deleted' = deleted
    BY <2>2 DEF OneInstance
  <2> QED
    BY <1>2, <2>3, <2>4, <2>5, <2>6, <2>7, DoomStays
<1>6. CASE CancelTask \/ RemoveClineFromStack \/ (\E i \in Insts : CloseTask(i)) \/ (DeleteTask /\ screen # 0)
  <2>1. PICK n \in Insts : n = Newest /\ Aborts(n) /\ Newest' = n
    BY <1>6, ProviderAborts, BornOnes
  <2>2. cur' = cur /\ \A l \in Slots : Waits(l) => save'[l] = save[l]
    BY <1>1, <1>4, <2>1 DEF Aborts, Begins, Ways
  <2>3. ~exposed /\ deleted' = deleted
    BY <1>6 DEF CancelTask, RemoveClineFromStack, CloseTask, DeleteTask, AbortTask
  <2>4. \A i \in Insts : cur'[i] >= cur[i]
    BY <1>1, <2>2
  <2> QED
    BY <1>2, <2>1, <2>2, <2>3, <2>4, DoomStays
<1>7. CASE CreateTask \/ ShowTask
  <2>1. /\ Newest' = Newest + 1 /\ UNCHANGED <<save, cur, deleted>> /\ ~exposed
    BY <1>7, ProviderCreates DEF CreateTask, ShowTask, held
  <2>2. \A i \in Insts : cur'[i] >= cur[i]
    BY <1>1, <2>1
  <2> QED
    BY <1>2, <2>1, <2>2, DoomStays
<1>8. CASE \/ CloseEnds \/ SwitchTab \/ (DeleteTask /\ screen = 0)
           \/ DeleteTaskFromState \/ RemoveDirectory
  <2>1. cur' = cur /\ ~exposed /\ (deleted => deleted')
    <3>1. CASE CloseEnds \/ SwitchTab \/ (DeleteTask /\ screen = 0)
      BY <3>1 DEF CloseEnds, SwitchTab, DeleteTask, held
    <3>2. CASE DeleteTaskFromState \/ RemoveDirectory
      BY <3>2 DEF DeleteTaskFromState, RemoveDirectory, held
    <3> QED
      BY <1>8, <3>1, <3>2
  <2>4. Newest' = Newest
    BY <1>8, ProviderRests
  <2>2. \A l \in Slots : Waits(l) => save'[l] = save[l]
    <3>1. CASE RemoveDirectory
      BY <1>1, <3>1, RemainsIs DEF RemoveDirectory, Waits, Saves
    <3> QED
      BY <1>8, <3>1 DEF CloseEnds, SwitchTab, DeleteTask, DeleteTaskFromState
  <2>3. \A i \in Insts : cur'[i] >= cur[i]
    BY <1>1, <2>1
  <2> QED
    BY <1>2, <2>1, <2>2, <2>3, <2>4, DoomStays
<1>9. CASE UNCHANGED persistVars
  <2>1. UNCHANGED <<save, cur, inst, exposed, deleted>>
    BY <1>9 DEF persistVars
  <2>2. Newest' = Newest
    BY <2>1, NewestStays DEF IInv, Born
  <2>3. \A i \in Insts : cur'[i] >= cur[i]
    BY <1>1, <2>1
  <2> QED
    BY <1>2, <2>1, <2>2, <2>3, DoomStays
<1>10. CASE Provider
  <2>1. screen = 0 \/ screen # 0
    OBVIOUS
  <2> QED
    BY <1>6, <1>7, <1>8, <1>10, <2>1 DEF Provider
<1> QED
  BY <1>3, <1>5, <1>9, <1>10 DEF HistoryNext

LEMMA WholeStep == IInv /\ ShowInv /\ WholeInv /\ [HistoryNext]_persistVars => WholeInv'
<1> SUFFICES ASSUME IInv, ShowInv, WholeInv, [HistoryNext]_persistVars, ~exposed', ~deleted', ~Doomed'
             PROVE  \A m \in Insts : m = Newest' => Whole(m)'
  BY DEF WholeInv
<1>1. ~exposed /\ ~deleted /\ ~Doomed /\ IInv'
  BY StepMovesOn, PersistenceStep
<1>2. PICK n \in Insts : n = Newest /\ Whole(n)
  BY <1>1, BornOnes DEF WholeInv
<1>3. ASSUME Whole(n)', Newest' = Newest PROVE \A m \in Insts : m = Newest' => Whole(m)'
  BY <1>2, <1>3
<1>4. CASE Saving
  <2>1. PICK k \in Slots : Shown(k) \/ Writes(k)
    BY <1>4 DEF Saving, Writes
  <2>2. inst' = inst
    BY <2>1 DEF Shown, Writes, Lock, GiveUp, Backup, Commit, Unlock, UpdateTaskHistory
  <2>3. Newest' = Newest
    BY <2>2, NewestStays DEF IInv, Born
  <2> QED
    BY <1>1, <1>2, <1>3, <2>1, <2>3, SavingWhole
<1>5. CASE Tasks
  <2>1. PICK i \in Insts : Steps(i)
    BY <1>5 DEF Tasks, Steps
  <2>2. Newest' = Newest
    BY <2>1, StepsKeep
  <2> QED
    BY <1>1, <1>2, <1>3, <2>1, <2>2, OldWhole, NewestWhole
<1>6. CASE CancelTask \/ RemoveClineFromStack \/ (\E i \in Insts : CloseTask(i)) \/ (DeleteTask /\ screen # 0)
  BY <1>2, <1>3, <1>6, ProviderAborts, AbortsWhole
<1>7. CASE CreateTask \/ ShowTask
  BY <1>1, <1>2, <1>7, CreatesWhole
<1>8. CASE \/ CloseEnds \/ SwitchTab \/ (DeleteTask /\ screen = 0)
           \/ DeleteTaskFromState \/ RemoveDirectory
  BY <1>1, <1>2, <1>3, <1>8, ProviderRests, RestsWhole
<1>9. CASE UNCHANGED persistVars
  <2>1. UNCHANGED <<file, item, lock, save, said, mem, cur, inst>>
    BY <1>9 DEF persistVars
  <2>2. Newest' = Newest
    BY <2>1, NewestStays DEF IInv, Born
  <2>3. Whole(n)'
    BY <1>2, <2>1, WholeStays
  <2> QED
    BY <1>3, <2>2, <2>3
<1>10. CASE Provider
  <2>1. screen = 0 \/ screen # 0
    OBVIOUS
  <2> QED
    BY <1>6, <1>7, <1>8, <1>10, <2>1 DEF Provider
<1> QED
  BY <1>4, <1>5, <1>9, <1>10 DEF HistoryNext

LEMMA WholeInit == HistoryInit => WholeInv
<1> SUFFICES ASSUME HistoryInit PROVE \A n \in Insts : n = Newest => Whole(n)
  BY DEF WholeInv
<1>1. IsNewest(1) /\ 1 \in Insts
  BY HistoryAssumption DEF HistoryInit, IsNewest, Born, Insts
<1>2. Newest = 1
  BY <1>1, NewestIs
<1>3. inst[1] = "running" /\ Messages(1) = {} /\ said = {} /\ lock = 0
  BY <1>1 DEF HistoryInit, Messages, Arrays
<1>4. Untouched
  BY NoSaveTyped DEF HistoryInit, Untouched
<1>5. Whole(1)
  BY <1>3, <1>4 DEF Whole, Reading, Writing
<1> QED
  BY <1>2, <1>5

\* When the task rests, nothing is pending and nobody has the lock.
LEMMA WholeAtRest == IInv /\ WholeInv => HistoryIsWhole
<1> SUFFICES ASSUME IInv, WholeInv, AtRest, item, ~exposed, ~deleted
             PROVE  /\ file = said
                    /\ \A i \in {screen, tab} \ {0} : inst[i] = "running" => Messages(i) = said
  BY DEF HistoryIsWhole
<1>1. \A k \in Slots : save[k].at = "none"
  BY NoSaveTyped DEF AtRest
<1>2. ~Pending /\ ~Doomed /\ ~Untouched
  BY <1>1 DEF Pending, Doomed, Waits, Untouched
<1>3. lock = 0
  <2>1. lock \in Slots \union {0}
    BY DEF IInv, PersistenceTypeOK, Slots
  <2> QED
    BY <1>1, <2>1 DEF IInv, SaveInv, Owning
<1>4. PICK n \in Insts : n = Newest /\ Whole(n)
  BY <1>2, BornOnes DEF WholeInv
<1>5. file = said
  BY <1>2, <1>3, <1>4 DEF Whole, Disk, Writing
<1>6. \A i \in {screen, tab} \ {0} : i = n
  BY <1>4 DEF IInv, PlaceInv
<1> QED
  BY <1>4, <1>5, <1>6 DEF Whole

\* The steps of saves, instances and provider keep every variable in its domain.
THEOREM PersistenceTypes == HistorySpec => []PersistenceTypeOK
<1>1. IInv => PersistenceTypeOK
  BY DEF IInv
<1>2. HistoryInit => IInv
  BY PersistenceInit
<1>3. IInv /\ [HistoryNext]_persistVars => IInv'
  BY PersistenceStep
<1> QED
  BY <1>1, <1>2, <1>3, PTL DEF HistorySpec

\* Whatever order the saves of a task take the lock in, and however often it is
\* stopped, closed and opened again: unless one of the exposures happened, the
\* history of a task that rests is in its file and in the instance that runs
\* (Task.ts:983, 1964-2019, 2218).
THEOREM HistoryKeepsAll == HistorySpec => []HistoryIsWhole
<1>1. HistoryInit => IInv /\ ShowInv /\ WholeInv
  <2>1. HistoryInit => ShowInv
    BY NoSaveTyped DEF HistoryInit, ShowInv
  <2> QED
    BY <2>1, PersistenceInit, WholeInit
<1>2. (IInv /\ ShowInv /\ WholeInv) /\ [HistoryNext]_persistVars => (IInv /\ ShowInv /\ WholeInv)'
  <2>1. ASSUME IInv, ShowInv, WholeInv, [HistoryNext]_persistVars PROVE IInv' /\ ShowInv' /\ WholeInv'
    BY <2>1, PersistenceStep, ShowStep, WholeStep
  <2> QED
    BY <2>1
<1>3. IInv /\ WholeInv => HistoryIsWhole
  BY WholeAtRest
<1> QED
  BY <1>1, <1>2, <1>3, PTL DEF HistorySpec

----------------------------------------------------------------------------
(* What surrounds one task                                                 *)

\* Whichever part a behaviour of MCTaskServices is of, it is one of every part
\* on its own: the chosen one takes its steps, and the others stutter.
THEOREM TaskServicesAreApart == Spec => ReplaceSpec /\ TermsSpec /\ HistorySpec
<1>1. Init => ReplaceInit /\ TermsInit /\ HistoryInit
  BY DEF Init
<1>2. [Next]_allVars => [ReplaceNext]_replaceVars /\ [TermsNext]_termVars /\ [HistoryNext]_persistVars
  BY DEF Next, ReplaceMoves, TermsMoves, HistoryMoves, allVars
<1> QED BY <1>1, <1>2, PTL DEF Spec, ReplaceSpec, TermsSpec, HistorySpec

\* The instances and the copies of their queues, the history and its saves, and
\* the terminals and their commands have their types, whichever of them moves.
THEOREM TaskServicesTypeCorrect == Spec => []TypesOK
BY TaskServicesAreApart, ReplacementTypes, TerminalTypes, PersistenceTypes, PTL DEF TypesOK
=============================================================================
