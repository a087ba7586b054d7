SPECIFICATION Spec
CONSTANTS
    Ids <- MCIds
    BlankId = ""
    TaskLists <- MCTaskLists
INVARIANTS
    GrayIsPath
    OkMeansAcyclic
    ReportedCycleIsReal
