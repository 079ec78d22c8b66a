\* Three attachments of one user, one of which may be unbound and two created a day.
CONSTANTS
    a1 = a1
    a2 = a2
    a3 = a3
    u1 = u1
    Attachments = {a1, a2, a3}
    Processors = {p1}
    Cleaners = {c1}
    Contents = {photo, text}
    Clean = {photo, text}
    Verbatim = {text}
    SecurityMode = "StructuralValidationOnly"
    MaxAttempts = 1
    MaxFaults = 0
    Nothing = Nothing
    Users = {u1}
    Uploader <- MCUploader
    Declared <- MCDeclared
    CreatedAt <- MCCreatedAt
    Recoded <- MCRecoded
    UnboundLimit = 1
    DailyLimit = 3
    TenantLimit = 2
    Day = 2
SPECIFICATION QuotaSpec
INVARIANTS
    LimitsKept
    ReservationFollowsStorage
SYMMETRY QuotaSymmetry
CHECK_DEADLOCK FALSE
