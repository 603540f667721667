\* Plain turns, and turns with every fault.
SPECIFICATION MCSpec
CONSTANTS
    Calls = {c1, c2, c3}
    MaxBlocks = 4
    MaxRequests = 2
    Events = {"reject"}
    FaultyBlocks = 3
    FaultyRequests = 3
INVARIANTS LockIsHeld PlainOnePresenter
PROPERTIES PlainResultsMatch PlainNothingRunsBehind PlainWaitResolves
CHECK_DEADLOCK FALSE
