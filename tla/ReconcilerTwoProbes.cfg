SPECIFICATION FairSpec
CONSTANTS
    Probe = {a, b}
    MasterId = {1, 2}
    ProbeId = {1, 2, 3, 4, 5}
    b = b
    n1 = n1
    n2 = n2
    Name = {n1, n2}
    Version = {1, 2, 3}
    NoId = NoId
    NoHash = NoHash
    NoMonitor = NoMonitor
    Hash <- HashValue
    InitMaster <- ChildAndGroup
    Choices <- EditChild
    Direct <- ChildOnly
    Deletable = {1}
    Group = {2}
    Concurrency = 2
    Fault = {"unreachable", "reject", "deadline", "disconnect", "verify", "probeDelete", "revert"}
    MaxEdits = 2
    MaxFaults = 1
INVARIANTS HashMatchesRow
PROPERTIES Converges
