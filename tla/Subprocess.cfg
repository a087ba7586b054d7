SPECIFICATION FairSpec
CONSTANTS
    Sessions <- MCSessions
    Launches <- MCLaunches
    PipeSize = 1
    MaxLines = 2
INVARIANTS
    EventsFollowLog
    EventsComplete
    LogIsBracketed
PROPERTIES
    SignalledReturnEndsBackend
    KeepsPromise
    ReturnsUnlessHeld
