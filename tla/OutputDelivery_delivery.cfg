SPECIFICATION Spec
CONSTANTS
    aggregate = aggregate
    failure = failure
    smtptls = smtptls
    foreign = foreign
    Kinds = {"aggregate", "failure", "smtp_tls"}
    Batch <- AllReports
    Size <- Records
    Covered <- OfTenants
    ConfiguredSets <- Mixed
    FailOnError = FALSE
    MaxAttempts = 3
INVARIANTS
    SavedMeansDelivered
    FailureIsolated
    DedupedOnce
    PostgresAtomic
