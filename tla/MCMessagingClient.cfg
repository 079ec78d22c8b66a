\* One conversation, pages of one message and two pages to a fetch; two
\* notifications in a list of one.
CONSTANTS
    Conversations = {c1}
    Keys = {k1, k2}
    Texts = {t1, t2}
    OnlyText = t1
    Other = other
    PageSize = 1
    MaxPages = 2
    MaxLog = 3
    MaxGestures = 3
    MaxFaults = 1
    PageLimit = 1
    MaxNotifications = 2
    MaxRequests = 2
    MaxClicks = 2
    MaxLosses = 1
SPECIFICATION PageSpec
INVARIANTS
    HolesAreExplained
    UnsentIsKept
    SaidOnce
    JoinedIsMember
PROPERTIES
    JoinedCatchesUp
    BellCatchesUp
CHECK_DEADLOCK FALSE
