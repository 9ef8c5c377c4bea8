SPECIFICATION Spec
CONSTANTS
    None = None
    Socket = {r1}
    Plans <- Interval
    End = 6
    MaxTimeout = 2
    MaxRequests = 1
    MaxRestarts = 0
INVARIANT IntervalKept
CHECK_DEADLOCK FALSE
