\* One kind of case, two clients with a case each, two conversations with two
\* messages between them; four clicks and a request that fails.
CONSTANTS
    MaxClicks = 4
    MaxLosses = 1
    Kinds = {"inquiries"}
    Clients = {a, b}
    All = all
    NoCase = noCase
    MaxVersion = 3
    Tenants = {x}
    NoTenant = noTenant
    Conversations = {c1, c2}
    Nowhere = nowhere
    Texts = {t1}
    NoText = noText
    MaxMessages = 2
SPECIFICATION Spec
SYMMETRY ConsoleSymmetry
INVARIANTS
    ScopeIsShown
    SavesAreInformed
    PanelIsOwn
    
    TypedIsKept
CHECK_DEADLOCK FALSE
