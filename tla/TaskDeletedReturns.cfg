\* A task in another tab is deleted while a save of it is under way.
SPECIFICATION HistorySpec
CONSTANTS
    Msgs = {m1}
    MaxInsts = 1
    MaxSaves = 1
    Clicks = 2
    NoFile = NoFile
INVARIANTS DeletedIsGone
CHECK_DEADLOCK FALSE
