CONSTANTS
    k1 = k1
    k2 = k2
    k3 = k3
    Calls = {k1, k2, k3}
    Limit = 2
    MaxTime = 4
    MaxRestarts = 1
    Blank = Blank
    Raw <- ThreeRows
SPECIFICATION QualitySpec
CHECK_DEADLOCK FALSE
INVARIANTS
    NeverTwice
    MetricsAddUp
PROPERTIES
    OnlyTiesAreSkipped
    CatchesUp
