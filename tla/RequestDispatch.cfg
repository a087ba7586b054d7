SPECIFICATION Spec
CONSTANTS
    Agents <- MCAgents
    Machines <- MCMachines
    Calls <- MCCalls
    MaxChanges = 1
INVARIANTS
    PreviewIsKept
    PolicyIsExpressed
    LateRefusalHasACause
    OnlyErrIsRetried
    TransportTellsFallback
