CONSTANTS
    Uids = {u1, u2}
    MaxSessions = 3
    MaxChanges = 2
    AwaitLimit = 2
SPECIFICATION Spec
CHECK_DEADLOCK FALSE
INVARIANTS
    InSync
PROPERTIES
    RunReturns
    CatchesUp
