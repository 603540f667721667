\* A new task with a patient user, and a resumed one with every race.
SPECIFICATION MCSpec
CONSTANTS
    Outs = {o1}
    MaxMsgs = 3
    MaxRequests = 2
    MaxTools = 2
    AskTypes = {"tool", "command", "followup", "completion_result"}
    Restored = 0
    Resumed = FALSE
    EagerUser = FALSE
    EarlyUser = FALSE
    Yolo = FALSE
    EmptyReplies = FALSE
    CommandTimeout = FALSE
INVARIANTS TypeOK OneTurnAtATime QueueInOrder NothingTwice CalmNothingDropped
PROPERTIES NoStaleAnswer QueueOnlyAtBoundary CalmQueueDrains CalmTurnsFinish
CHECK_DEADLOCK FALSE
