SPECIFICATION Spec
CONSTANTS
    Depth = 3
    Asks <- MCAsks
    Disks <- MCDisks
INVARIANTS
    SuccessIsOfTheTask
    OrphanHasACause
    PathsToldAreUsed
    BackendRunsWhereTold
CHECK_DEADLOCK FALSE
