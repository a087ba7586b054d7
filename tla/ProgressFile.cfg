SPECIFICATION Spec
CONSTANTS
    Runs <- MCRuns
    MaxRecords = 3
INVARIANTS
    EachLineIsOneRecord
