SPECIFICATION Spec
CONSTANTS
    Ids <- MCIds
    BlankId = ""
    TaskLists <- MCShortLists
    WorkerLimits = {1, 2}
INVARIANTS
    ValidGraphNeverReportedCircular
