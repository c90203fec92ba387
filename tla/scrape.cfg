CONSTANTS
    r1 = r1
    r2 = r2
    Nobody = Nobody
    Blank = Blank
    Requests = {r1, r2}
    Lists <- TwoLists
    Row <- SmallRows
    Timeout = 2
    MaxItems = 2
SPECIFICATION Spec
CHECK_DEADLOCK FALSE
INVARIANTS
    RowsAreWhole
    
    OneSession
    InTime
    SeriesAddUp
PROPERTIES
    Served
