SPECIFICATION FairSpec
CONSTANTS
    a1 = a1
    a2 = a2
    f1 = f1
    i1 = i1
    x1 = x1
    k1 = k1
    Messages = {a1, f1, x1}
    Keys = {k1}
    kind <- MCKind
    key <- MCKey
    Options <- LiveOptions
    MaxUnsavedRetries = 1
    DefaultBatchSize = 1
    MaxFaults = 1
    MaxForgets = 1
PROPERTY
    EveryMessageLeaves
