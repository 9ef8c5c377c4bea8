SPECIFICATION Spec
CONSTANTS
    None = None
    Socket = {r1, r2}
    Plans <- Five
    End = 5
    MaxTimeout = 2
    MaxRequests = 3
    MaxRestarts = 1
INVARIANTS TypeOK StatusTruthful NoStrayJobs StoredAsSeen
PROPERTIES GapsOnlyInRuns
CHECK_DEADLOCK FALSE
