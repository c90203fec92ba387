CONSTANTS
    Subs = {s1, s2}
    Cap = 2
    MaxEvents = 3
SPECIFICATION Spec
CHECK_DEADLOCK FALSE
INVARIANTS
    NoPanic
    MissMeansDrop
PROPERTIES
    ImplementsFeed
    PublishReturns
    DroppedHandlerReturns
