CONSTANTS
    c1 = c1
    c2 = c2
    e1 = e1
    e2 = e2
    Contacts = {c1, c2}
    Endpoints = {e1, e2}
    Owner <- Separate
    Qualified = {c1}
    Lifetime = 1
    MaxTime = 2
    MaxRows = 3
    Losses = TRUE
SPECIFICATION Spec
CHECK_DEADLOCK FALSE
INVARIANTS
    NoFalseOffline
