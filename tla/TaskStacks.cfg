\* Operations that never overlap, and two that do with one instance less.
SPECIFICATION MCSpec
CONSTANTS
    Ops = {o1, o2}
    MaxInsts = 4
    Subtasks = TRUE
    Failures = FALSE
SYMMETRY OpSymmetry
INVARIANTS InOnePlace AloneTabsAreLive AloneOneCopy
CHECK_DEADLOCK FALSE
