SPECIFICATION Spec
CONSTANTS
    Width <- Widths
    Limit <- Limits
    Object = {o1, o2}
    None = None
    User = {u1, u2}
    Statuses = {"pending"}
    Starts <- NewOrOld
    Start = 7
    End = 9
    MaxBeats = 3
    MaxEvents = 1
SYMMETRY Alike
INVARIANTS TablesExact NeverMore WindowCounted
CHECK_DEADLOCK FALSE
