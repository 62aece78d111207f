SPECIFICATION FairSpec
CONSTANTS
    Pool = {w1}
    Main = main
    Callbacks = {c1}
    Jobs = {j1}
PROPERTY JobsServed
\* The program ends, and a lost wakeup stalls it before that.
CHECK_DEADLOCK FALSE
