SPECIFICATION FairSpec
CONSTANTS
    Workers = {w1, w2, w3}
    Quic = quic
    Messages = {m1, m2, m3}
    NULL = NULL
INVARIANTS NoBacklog OneWorkerInside
PROPERTIES RecievedIsProcessed RestsUnlessSendsFail ImplementsOutbox
\* The connection ends and the client comes to rest.
CHECK_DEADLOCK FALSE
