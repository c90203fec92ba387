CONSTANTS
    c1 = c1
    c2 = c2
    c3 = c3
    Calls = {c1, c2, c3}
    Groups = {1}
    Numeric = {2, 3}
    Agents = {4}
    Trunks = {5}
    Shapes <- TypicalShapes
    Date <- TieAtTheEnd
    PageSize = 1
    Matches <- Holds
    DrillLimit = 1
    MissedLimit = 2
    Calendar <- AroundMidnight
SPECIFICATION Spec
SYMMETRY CallSymmetry
CHECK_DEADLOCK FALSE
INVARIANTS
    DrillAgrees
    
    StatsAgree
    ExtensionAgrees
    RecordingFound
    NoCallSkipped
