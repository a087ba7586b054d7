SPECIFICATION SessionsSpec
CONSTANTS
    MaxCalls = 4
    MaxRuns = 2
INVARIANTS
    SequentialCallsKeepContext
    IdsAreMintedOnce
    ConversationsStayApart
