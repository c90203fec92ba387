CONSTANTS
    u1 = u1
    u2 = u2
    u3 = u3
    b1 = b1
    v1 = v1
    Uids = {u1, u2, u3}
    Bridges = {b1}
    Attrs = {"connected"}
    Values = {v1}
    Unknown = Unknown
    None = None
    MaxClock = 2
    Refreshes = FALSE
    Relinks = FALSE
    Resets = FALSE
SPECIFICATION Spec
SYMMETRY Symmetry
INVARIANTS
    NothingLingers
    OriginatingLegFirst
PROPERTIES
    StartedIsNews
    LastHangupEnds
