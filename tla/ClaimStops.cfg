SPECIFICATION Spec
CONSTANTS
    Object = {1, 2}
    NoObject = 0
    Socket = {1}
    Call = {p}
    Settings <- OnePush
    Default <- PushOnly
    Edits <- Same
    Outcomes = {"throws"}
    Requests <- Pauses
    Pooled = FALSE
    MaxRequests = 1
    MaxFaults = 0
    Saturation = 2
INVARIANTS StopIsFinal
CHECK_DEADLOCK FALSE
