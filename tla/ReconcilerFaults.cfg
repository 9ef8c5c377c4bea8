SPECIFICATION Spec
CONSTANTS
    Probe = {a}
    MasterId = {1, 2}
    ProbeId = {1, 2, 3, 4, 5}
    b = b
    n1 = n1
    n2 = n2
    Name = {n1, n2}
    Version = {1, 2, 3}
    NoId = NoId
    NoHash = NoHash
    NoMonitor = NoMonitor
    Hash <- HashValue
    InitMaster <- GroupAndChild
    Choices <- MoveChild
    Direct <- All
    Deletable = {1, 2}
    Group = {1}
    Concurrency = 1
    Fault = {"unreachable", "reject", "lostAck", "disconnect", "deadline", "verify", "crash", "tornSave", "revert"}
    MaxEdits = 2
    MaxFaults = 3
INVARIANTS TypeOK MappingsAgree NoDuplicates MapsToOwnRow
PROPERTIES DeletesOnlyUnwanted
