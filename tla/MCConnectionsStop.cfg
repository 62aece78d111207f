SPECIFICATION Spec
CONSTANTS
    Connections = {c1, c2, c3}
    NULL = NULL
    i_ClientConnectionsMax = 2
    Parallel = 2
    MaxMembers = 3
INVARIANT ContextUnusedAfterStop
\* A server that is gone has nothing left to do.
CHECK_DEADLOCK FALSE
