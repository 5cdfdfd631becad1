\* Both servers on one file: expected violation.
CONSTANTS
    Server = {A, B}
    Row = {r1}
    Query = {q1}
    NULL = NULL
    EarlyClients = FALSE
    Kills = FALSE
SPECIFICATION Spec
SYMMETRY Symmetry
INVARIANTS
    AckedStored
