\* A private conversation and a ticket, two fair dispatchers, one fault.
CONSTANTS
    Dispatchers = {d1, d2}
    Conversations = {talk, ticket}
    Private = {talk}
    Cases = {ticket}
    Admins = {p1}
    Events = {1, 2}
    BatchSize = 1
    MaxAttempts = 2
    MaxFaults = 1
    Nothing = Nothing
SPECIFICATION FairSpec
INVARIANTS
    LastChangeSurvives
    LockIsInUse
PROPERTIES
    AudienceIsCurrent
    EventIsSettled
CHECK_DEADLOCK FALSE
