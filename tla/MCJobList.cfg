SPECIFICATION FairSpec
CONSTANTS
    Pool = {w1, w2}
    Main = main
    Callbacks = {c1}
    Jobs = {j1, j2}
INVARIANTS StallNeedsMiss OneJobAfterLock
PROPERTIES JobsKept JoinWaitsForSleepers SigTermEndsLoop ImplementsMainPhases
\* The program ends, and a lost wakeup stalls it before that.
CHECK_DEADLOCK FALSE
