\* One attachment, two validation workers, malware scanning, fair workers and leases.
CONSTANTS
    Attachments = {a1}
    Processors = {p1, p2}
    Cleaners = {c1}
    Contents = {good, photo}
    Clean = {good, photo}
    Verbatim = {good}
    SecurityMode = "MalwareScanning"
    MaxAttempts = 2
    MaxFaults = 2
    Nothing = Nothing
SPECIFICATION FairSpec
INVARIANTS
    ReleasedStorageIsGone
PROPERTIES
    UploadIsDecided
    CleanupCompletes
CHECK_DEADLOCK FALSE
