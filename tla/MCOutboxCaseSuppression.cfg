\* A ticket whose status changes while its message waits to be dispatched.
CONSTANTS
    Dispatchers = {d1}
    Conversations = {ticket}
    Private = {}
    Cases = {ticket}
    Admins = {p1}
    Events = {1, 2}
    BatchSize = 1
    MaxAttempts = 1
    MaxFaults = 0
    Nothing = Nothing
SPECIFICATION Spec
INVARIANTS
    OnlyPrivateSuppressed
CHECK_DEADLOCK FALSE
