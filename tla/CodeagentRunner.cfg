SPECIFICATION FairSpec
CONSTANTS
    Ids <- MCIds
    Calls <- MCCalls
    PromptFiles = {"review", "plan"}
INVARIANTS
    LivingDependencyWasAbandoned
    ExitZeroIsEarned
    CircularIsTrue
    CommandFollowsPrecedence
    SignalFindsOnlyTheAbandoned
PROPERTIES
    ReturnsUnlessHeld
CHECK_DEADLOCK FALSE
