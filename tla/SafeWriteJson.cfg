\* Every step but the rollback rename may fail, and hosts may die between steps.
SPECIFICATION FairSpec
CONSTANTS
    Writers = {w1, w2}
    Docs = {d1, d2}
    NoFile = NoFile
    Partial = Partial
    Free = Free
    MayFail <- AllButRollback
    MayCrash = TRUE
INVARIANTS TypeOK NeverLost
PROPERTIES ImplementsDocument EveryCallSettles
CHECK_DEADLOCK FALSE
