SPECIFICATION FairSpec
CONSTANTS
    Object = {1, 2}
    NoObject = 0
    Socket = {1, 2}
    Call = {}
    Settings <- Steady
    Default <- NoResend
    Edits <- Same
    Outcomes = {"throws"}
    Requests <- All
    Pooled = TRUE
    MaxRequests = 2
    MaxFaults = 1
    Saturation = 2
INVARIANTS OneLoop StopIsFinal
PROPERTIES OutagesDetected KeepsChecking
CHECK_DEADLOCK FALSE
