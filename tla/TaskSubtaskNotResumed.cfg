\* A subtask is created and completes.
SPECIFICATION Spec
CONSTANTS
    Ops = {o1}
    MaxInsts = 3
    Subtasks = TRUE
    Failures = FALSE
INVARIANTS CallerResumed
CHECK_DEADLOCK FALSE
