\* Two conversations, one file that is uploaded up to two times.
CONSTANTS
    Conversations = {c1, c2}
    Nowhere = nowhere
    Files = {f1}
    Uploads = {u1, u2}
    NoUpload = noUpload
    MaxFiles = 5
    Texts = {t1, t2}
    NoText = noText
    MaxMessages = 2
    MaxGestures = 5
    MaxFaults = 2
    MaxLists = 2
SPECIFICATION Spec
SYMMETRY PageSymmetry
INVARIANTS
    PanelIsFaithful
    InputIsOwn
    TextIsKept
    UploadsAreOwn
    NothingIsLeftBehind
CHECK_DEADLOCK FALSE
