SPECIFICATION Spec
CONSTANTS
    Object = {1, 2}
    NoObject = 0
    Socket = {1}
    Call = {p}
    Settings <- Mixed
    Default <- OneRetry
    Edits <- TurnOver
    Outcomes = {"maintenance", "up", "pending", "down", "throws", "throwsFinal"}
    Requests <- EditsOnly
    Pooled = FALSE
    MaxRequests = 1
    MaxFaults = 1
    Saturation = 2
INVARIANTS TypeOK OutagesAnnounced RetriesExhausted RemindsInTime
CHECK_DEADLOCK FALSE
