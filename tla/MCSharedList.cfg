SPECIFICATION Spec
CONSTANTS
    Threads = {t1, t2, t3}
    Elements = {e1, e2, e3}
    NULL = NULL
    MaxEntries = 3
    SizeMax = 7
    Relocates = {2}
SYMMETRY Symmetry
INVARIANTS OneGrower CountExact
PROPERTY ImplementsStore
CHECK_DEADLOCK TRUE
