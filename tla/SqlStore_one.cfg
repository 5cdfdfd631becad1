\* One server, clients that call while sql.js loads, kills during a write.
CONSTANTS
    Server = {A}
    Row = {r1, r2, r3}
    Query = {q1, q2}
    NULL = NULL
    EarlyClients = TRUE
    Kills = TRUE
SPECIFICATION Spec
SYMMETRY Symmetry
INVARIANTS
    StoreCoherent
    LateRowsStored
PROPERTIES
    LateQueriesSeeRows
