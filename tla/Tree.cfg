SPECIFICATION Spec
CONSTANTS
    m1 = m1
    m2 = m2
    m3 = m3
    m4 = m4
    Monitor = {m1, m2, m3, m4}
    None = None
    Socket = {r1, r2}
    Operations = {"add", "edit", "delete", "switch"}
    MaxDepth = 3
    MaxEvents = 2
    Starts <- Three
INVARIANTS TypeOK OnlyGroupsHaveChildren DepthBounded MirrorFollows
PROPERTIES Implements DeletesOnlyBelow RequestsEnd
CHECK_DEADLOCK FALSE
