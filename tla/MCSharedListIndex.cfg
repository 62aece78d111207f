SPECIFICATION Spec
CONSTANTS
    Threads = {t1, t2, t3}
    Elements = {e1, e2}
    NULL = NULL
    MaxEntries = 2
    SizeMax = 7
    Relocates = {1}
SYMMETRY Symmetry
INVARIANT NoWildIndex
CHECK_DEADLOCK TRUE
