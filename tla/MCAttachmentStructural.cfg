\* One attachment, two workers of each kind, structural validation.
CONSTANTS
    Attachments = {a1}
    Processors = {p1, p2}
    Cleaners = {c1, c2}
    Contents = {good, bad}
    Clean = {good}
    Verbatim = {good}
    SecurityMode = "StructuralValidationOnly"
    MaxAttempts = 2
    MaxFaults = 3
    Nothing = Nothing
SPECIFICATION Spec
INVARIANTS
    ReadyIsServable
    CleanIsNotRefused
PROPERTIES
    RetentionUnlessUnacknowledged
    PromiseIsKept
SYMMETRY WorkerSymmetry
CHECK_DEADLOCK FALSE
