CONSTANTS
    u1 = u1
    u2 = u2
    p1 = p1
    Uids = {u1, u2}
    Bridges = {}
    Attrs = {"state"}
    Values = {}
    Unknown = Unknown
    None = None
    MaxClock = 0
    Refreshes = FALSE
    Relinks = FALSE
    Resets = TRUE
    Pages = {p1}
    Buffer = 1
    Rest = TRUE
    MaxFaults = 1
SPECIFICATION StreamSpec
SYMMETRY StreamSymmetry
VIEW StreamView
INVARIANTS
    ShownIsLive
PROPERTIES
    EndedStaysEnded
