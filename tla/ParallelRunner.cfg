SPECIFICATION FairSpec
CONSTANTS
    Ids <- MCIds
    BlankId = ""
    TaskLists <- MCTaskLists
    WorkerLimits = {0, 1, 2, 3}
INVARIANTS
    NoTaskLost
    ProcessBound
    DependenciesReaped
    OkIsComplete
    CircularReportIsSpurious
PROPERTIES
    ResultsAreFinal
    KeepsPromise
    Returns
