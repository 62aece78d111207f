SPECIFICATION Spec
CONSTANTS
    Streams = {s1, s2, s3, s4}
    MaxPieces = 2
    i_MaxClientCount = 1
    CLIENT_STREAMS_MULTIPLIER = 3
    StreamCounts = 65536
SYMMETRY Symmetry
INVARIANTS TypeOK WholeStreams ContextsBounded
\* The connection is closed.
CHECK_DEADLOCK FALSE
