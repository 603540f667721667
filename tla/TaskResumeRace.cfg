\* A task is resumed with a queued message.
SPECIFICATION Spec
CONSTANTS
    Outs = {}
    MaxMsgs = 1
    MaxRequests = 2
    MaxTools = 1
    AskTypes = {"tool"}
    Restored = 1
    Resumed = TRUE
    EagerUser = FALSE
    EarlyUser = FALSE
    Yolo = FALSE
    EmptyReplies = FALSE
    CommandTimeout = FALSE
PROPERTY HistoryKept
CHECK_DEADLOCK FALSE
