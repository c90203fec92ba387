CONSTANTS
    u1 = u1
    b1 = b1
    u2 = u2
    v1 = v1
    Uids = {u1, u2}
    Bridges = {b1}
    Attrs = {"caller"}
    Values = {v1}
    Unknown = Unknown
    None = None
    MaxClock = 1
    Refreshes = TRUE
    Relinks = FALSE
    Resets = TRUE
SPECIFICATION Spec
SYMMETRY Symmetry
INVARIANTS
    IndexAgrees
    LiveCallsMirrored
PROPERTIES
    NewsIsStarted
