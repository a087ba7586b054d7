SPECIFICATION PlanSpec
CONSTANTS
    Ids <- MCIds
    BlankId = ""
    TaskLists <- MCTaskLists
INVARIANTS
    PhasesRespectDependencies
    PhasesAreEarliest
    OmittedAreStuck
