SPECIFICATION FilesSpec
CONSTANTS
    Runs = {r1, r2}
    Inputs <- MCInputs
    Subdir <- MCSubdir
    MaxFaults = 1
SYMMETRY RunSymmetry
INVARIANTS
    ArchiveKeepsAll
    SavedIsOnDisk
CHECK_DEADLOCK FALSE
