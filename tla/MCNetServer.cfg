SPECIFICATION NetFairSpec
CONSTANTS
    Connections = {c1, c2, c3}
    NULL = NULL
    i_ClientConnectionsMax = 1
    Parallel = 2
    MaxMembers = 3
    hardware_concurrency = 6
INVARIANTS OwnClient OnlyRefusedStay OvershootBounded CounterExact NothingLeftOpen
INVARIANTS UsedIsAlive EndsClean
PROPERTIES EndsUnlessHeld ImplementsMainPhases
\* The program ends.
CHECK_DEADLOCK FALSE
