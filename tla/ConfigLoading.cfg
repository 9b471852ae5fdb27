SPECIFICATION Spec
CONSTANTS
    Installed = {"msgraph", "gmail"}
    Files <- MCFiles
    Unreadable = Unreadable
    Missing = Missing
    Direct <- MCDirect
    Secrets <- MCSecrets
    CliLog = "nothing"
    LogFiles = {"a.log", "b.log"}
INVARIANTS
    OptionsFollowSources
    LogFollows
