SPECIFICATION FairSpec
CONSTANTS
    d1 = d1
    d2 = d2
    d3 = d3
    d4 = d4
    p1 = p1
    Processes = {p1}
    Names <- MCNames
    LegacyNames <- MCLegacyNames
    BackfillNames <- MCBackfillNames
    Covers <- MCCovers
    Docs = {d1, d2, d3, d4}
    Held <- MCHeld
    Dated <- MCDated
    FirstKind <- MCFirstKind
    Done = {d2}
    MaxFaults = 2
INVARIANTS
    NoDocumentLost
    MappedBeforeFilled
    QuietStartMigrates
PROPERTY
    EventuallyMigrated
