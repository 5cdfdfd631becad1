\* Two clients; one key of each kind, and a port another process has.
CONSTANTS
    Client = {c1, c2}
    Port = {p, q}
    JobId = {j}
    Token = {t}
    NULL = NULL
    MaxHandles = 2
    MaxMessages = 3
    InboxCap = 2
    InboxTake = 1
    Occupied = {q}
SPECIFICATION Spec
SYMMETRY Symmetry
INVARIANTS
    TypeOK
    OnePerKey
    Reachable
    EntriesAlive
    InboxOrdered
    InboxKeepsNewest
CHECK_DEADLOCK FALSE
