SPECIFICATION FairSpec
CONSTANTS
    Hooks = {h1, h2}
    Threads = {t1, t2}
    Handles = {k1, k2}
    None = none
INVARIANTS
    TypeOK
    CleanCloseLeavesNothing
    EarlyEndIsExplained
    ListenersAreFound
PROPERTIES
    CloseReturns
CHECK_DEADLOCK FALSE
