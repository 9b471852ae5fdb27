SPECIFICATION Spec
CONSTANTS
    a1 = a1
    a2 = a2
    f1 = f1
    i1 = i1
    x1 = x1
    k1 = k1
    Messages = {a1, a2, f1, i1}
    Keys = {k1}
    kind <- MCKind
    key <- MCKey
    Options <- SafetyOptions
    MaxUnsavedRetries = 1
    DefaultBatchSize = 2
    MaxFaults = 1
    MaxForgets = 1
SYMMETRY Copies
INVARIANTS
    TypeOK
    RemovedImpliesSaved
    SeenImpliesSaved
    AggregateSavedOnce
    RetriesCapped
    ShelvedAfterRetries
PROPERTY
    TestLeavesMailbox
    ImplementsCustody
