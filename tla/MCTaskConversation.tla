------------------------- MODULE MCTaskConversation -------------------------
(***************************************************************************)
(* Two situations in one run: a new task without output callbacks, whose   *)
(* user answers every ask once, and a resumed one with a restored message, *)
(* output, and a hasty user.  A behaviour is in one of them throughout.    *)
(***************************************************************************)
EXTENDS TaskConversation

VARIABLE races

Races == INSTANCE TaskConversation WITH
             MaxMsgs <- MaxMsgs - 1, MaxTools <- MaxTools - 1,
             Restored <- 1, Resumed <- TRUE, EagerUser <- TRUE, EarlyUser <- TRUE,
             Yolo <- TRUE, EmptyReplies <- TRUE, CommandTimeout <- TRUE

NoOutput == \A o \in Outs : asks'[o] = NoAsk

MCInit == \/ races = FALSE /\ Init
          \/ races = TRUE /\ Races!Init

MCNext == \/ ~races /\ UNCHANGED races /\ Next /\ NoOutput
          \/ races /\ UNCHANGED races /\ Races!Next

Calm(action) == ~races /\ action

\* That of FairSpec, for the new task.
MCSpec ==
    /\ MCInit /\ [][MCNext]_<<vars, races>>
    /\ WF_vars(Calm(StartTask)) /\ WF_vars(Calm(MainEnters))
    /\ WF_vars(Calm(DrainCheckpointed)) /\ WF_vars(Calm(DrainSends)) /\ WF_vars(Calm(QueueTick))
    /\ \A t \in Turners : WF_vars(Calm(TurnStep(t))) /\ WF_vars(Calm(AskStep(t)))
    /\ WF_vars(Calm(CommandDies))
    /\ WF_vars(Calm(UserPicks \/ UserApproves))

\* NothingDropped, QueueDrains and TurnsFinish for the new task: a second answer
\* within 100 ms, or a message typed before the first turn is counted, breaks them.
CalmNothingDropped == ~races => NothingDropped
CalmQueueDrains == (~races /\ queue # <<>>) ~> (queue = <<>> \/ aborted)
CalmTurnsFinish ==
    \A t \in Turners : (~races /\ InTurn(t)) ~> (~InTurn(t) \/ aborted \/ OnScreen({"completion_result"}))
=============================================================================
