SPECIFICATION Spec
CONSTANTS
    Messages = {m1, m2, m3}
    None = None
    MaxFailures = 2
SYMMETRY Symmetry
INVARIANTS NoContextLeak RepliesKept AtMostTwoPerContext OnlyFirstAttemptIntact
PROPERTIES ImplementsOutbox
