\* Clients that call while sql.js loads: expected violation.
CONSTANTS
    Server = {A}
    Row = {r1, r2}
    Query = {q1}
    NULL = NULL
    EarlyClients = TRUE
    Kills = FALSE
SPECIFICATION Spec
SYMMETRY Symmetry
INVARIANTS
    AckedStored
