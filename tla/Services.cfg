SPECIFICATION Spec
CONSTANTS
    Servers = {s1}
    Variants = {v1}
    MaxFlows = 2
    MaxIds = 6
    Budget = 2
    Absent = Absent
    Files = {f1}
    MaxTries = 2
    MaxBatches = 2
    Inputs = 3
    NoFile = NoFile
    Calls = {c1, c2, c3}
    MaxCommits = 2
INVARIANTS TypesOK OneConnection SettledMatchesFile  
           OneShadowInit
PROPERTIES FlagClears IndexingEnds CommitIsSnapshot CallsEnd
CHECK_DEADLOCK FALSE
