\* A message is queued while the first row of the task is being saved.
SPECIFICATION FairSpec
CONSTANTS
    Outs = {}
    MaxMsgs = 1
    MaxRequests = 2
    MaxTools = 1
    AskTypes = {"tool"}
    Restored = 0
    Resumed = FALSE
    EagerUser = FALSE
    EarlyUser = TRUE
    Yolo = FALSE
    EmptyReplies = FALSE
    CommandTimeout = FALSE
PROPERTY TurnsFinish
CHECK_DEADLOCK FALSE
