\* Two attempts at a time from one source, against one pair, over three windows; one
\* account with two requests at a time, two ticks to the second.
CONSTANTS
    s1 = s1
    Attempts = {i1, i2}
    Pairs = {p1}
    Sources = {s1}
    SourceOf <- MCSourceOf
    SourcePermitLimit = 2
    SourceWindow = 1
    FailedAttemptsBeforeBackoff = 2
    InitialBackoff = 1
    MaximumBackoff = 3
    StateRetention = 3
    CleanupBatchSize = 1
    CleanupEveryOperations = 2
    NoBucket = NoBucket
    Accounts = {a1}
    Requests = {q1, q2}
    Unreadable = unreadable
    Unchecked = unchecked
    NoTicket = NoTicket
    ValidationInterval = 2
    TicksPerSecond = 2
    MaxStamp = 1
    MaxClock = 4
    LastValidation = 3
SPECIFICATION SignInSpec
INVARIANTS
    WindowPermitsKept
    EveryFailureCounted
    AcceptedWithinInterval
    RejectedIsRevoked
PROPERTIES
    BlockLastsByLevel
SYMMETRY SignInSymmetry
CHECK_DEADLOCK FALSE
