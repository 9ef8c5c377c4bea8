SPECIFICATION MCServicesSpec
CONSTANTS
    Key = {k1, k2}
    Json = {null, json}
    Raw = raw
    Null = null
    Getter = {g1}
    Setter = {s1, s2}
    Minute = 1
    Latency = 0
    MaxSets = 2
    None = none
    Watcher = {w1, w2}
    Sender = {n1, n2}
    NotifyDays = {1, 2}
    FirstExpiry = 3
    Renewals = 1
    Outages = 1
    MaxOverlaps = 2
    NotSent = notsent
    Probed = {m1}
    Ip = {i1, i2}
    Resolver = {r1, r2}
    MemoryMax = 1
    StaleTtl = 1
    MaxAge = 2
    Zone = 0
    Horizon = 3
    Absent = absent
    AlertType = {hijack, path}
    Prefix = {p1, p2}
    HalfHour = 2
    MaxAlerts = 4
    MaxPolls = 2
    Unseen = unseen
    ReadLimit = 2
    Cap = 3
    MaxBeats = 3
    MaxTrouble = 2
    Unsent = unsent
SYMMETRY Alike
INVARIANTS StaleBriefly DeadlineOnce AnswersRecent UnhealthyForAReason FeedTruthful
CHECK_DEADLOCK FALSE
