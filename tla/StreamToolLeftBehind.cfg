\* Tools may push a result before they return.
SPECIFICATION Spec
CONSTANTS
    Calls = {c1, c2, c3}
    MaxBlocks = 3
    MaxRequests = 2
    Events = {"early"}
PROPERTIES NothingRunsBehind
CHECK_DEADLOCK FALSE
