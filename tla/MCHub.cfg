\* One account with one connection, two rotations, and the clock.
CONSTANTS
    a1 = a1
    a2 = a2
    c1 = c1
    c2 = c2
    Accounts = {a1}
    Connections = {c1}
    Owner <- MCOwner
    Rotations = {r1, r2}
    Unreadable = unreadable
    Anything = anything
    ValidationInterval = 1
    MaxConcurrentValidations = 1
    MaxStamp = 1
    MaxClock = 1
SPECIFICATION FairSpec
INVARIANTS
    NoCallOutlivesRevocation
PROPERTIES
    AbortsAreJustified
    RevokedIsDriven
CHECK_DEADLOCK FALSE
