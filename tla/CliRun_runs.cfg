SPECIFICATION Spec
CONSTANTS
    fileA = fileA
    fileB = fileB
    fileBad = fileBad
    mboxA = mboxA
    mboxB = mboxB
    mboxF = mboxF
    mboxBad = mboxBad
    mailA = mailA
    mailF = mailF
    mailBad = mailBad
    Files = {fileA, fileB, fileBad}
    Mboxes <- MboxFiles
    Messages = {mailA, mailF, mailBad}
    Report <- ReportIn
    Aggregate = {"aggregate"}
    Corrupt = {fileBad, mboxBad, mailBad}
    Refusable = {mailA, mailF, mboxF}
    HasMailbox = TRUE
    MaxRuns = 2
INVARIANTS
    SavedOncePerRun
    RemovedWasRead
