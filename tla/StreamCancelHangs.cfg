\* The task is cancelled at any time.
SPECIFICATION FairSpec
CONSTANTS
    Calls = {c1, c2}
    MaxBlocks = 2
    MaxRequests = 1
    Events = {"abort"}
PROPERTIES WaitResolves
CHECK_DEADLOCK FALSE
