SPECIFICATION Spec
CONSTANTS
    aggregate = aggregate
    failure = failure
    smtptls = smtptls
    foreign = foreign
    Kinds = {"aggregate"}
    Batch <- AllReports
    Size <- Records
    Covered <- OfTenants
    ConfiguredSets <- Indexes
    FailOnError = FALSE
    MaxAttempts = 2
INVARIANTS
    SavedMeansIndexed
