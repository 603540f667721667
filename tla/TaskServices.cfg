SPECIFICATION Spec
CONSTANTS
    Texts = {m1, m2}
    Ops = {o1, o2}
    MaxInstances = 3
    Moves = 2
    NoMsg = None
    Commands = {a, b}
    MaxTerms = 3
    Typed = 1
    None = None
    Msgs = {m1}
    MaxInsts = 3
    MaxSaves = 3
    Clicks = 2
    NoFile = NoFile
INVARIANTS TypesOK TakenOnce HistoryIsWhole OneCommandEach
PROPERTIES ForcedArrives CallsReturn AnswerStands
CHECK_DEADLOCK FALSE
