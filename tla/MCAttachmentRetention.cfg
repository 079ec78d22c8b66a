\* The retention floor, which a lost acknowledgement breaks.
CONSTANTS
    Attachments = {a1}
    Processors = {p1}
    Cleaners = {c1}
    Contents = {good}
    Clean = {good}
    Verbatim = {good}
    SecurityMode = "StructuralValidationOnly"
    MaxAttempts = 2
    MaxFaults = 3
    Nothing = Nothing
SPECIFICATION Spec
PROPERTIES
    BoundRetentionFloor
CHECK_DEADLOCK FALSE
