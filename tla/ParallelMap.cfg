SPECIFICATION FairSpec
CONSTANTS
    N = 6
    NProcs = 2
    WindowFactor = 2
    Prefetch = 1
INVARIANTS
    TypeOK
    InSubmissionOrder
    ResultsPaired
    WindowBounded
    NothingDropped
PROPERTY
    Terminates
