CONSTANTS
    Blank = Blank
    Configured <- SmallConfigurations
SPECIFICATION Spec
CHECK_DEADLOCK FALSE
INVARIANTS
    RunsAsConfigured
    
