\* A private conversation, a group chat, and a ticket whose first message has no
\* client message id; three requests, two admins to hand conversations over to.
CONSTANTS
    Third = r3
    Requests = {r1, r2, r3}
    Conversations = {talk, team, ticket}
    Private = {talk}
    Cases = {ticket}
    Clients = {u1}
    Admins = {p1, p2}
    Keys = {k1}
    Contents = {hello}
    Nothing = Nothing
SPECIFICATION MessagesSpec
INVARIANTS
    SequencesDense
    WaitsAreShort
PROPERTIES
    PromiseIsKept
SYMMETRY MessagesSymmetry
CHECK_DEADLOCK FALSE
