CONSTANTS
    u1 = u1
    u2 = u2
    b1 = b1
    p1 = p1
    Uids = {u1, u2}
    Bridges = {b1}
    Attrs = {}
    Values = {}
    Unknown = Unknown
    None = None
    MaxClock = 0
    Refreshes = FALSE
    Relinks = FALSE
    Resets = FALSE
    Pages = {p1}
    Buffer = 2
    Rest = FALSE
    MaxFaults = 0
SPECIFICATION StreamSpec
INVARIANTS
    SnapshotThenDeltas
