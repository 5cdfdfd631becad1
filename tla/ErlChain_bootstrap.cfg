\* The process dies between two saves of the bootstrap.
CONSTANTS
    Server = {A}
    MaxId = 4
    Interval = 9
    KeepLast = 2
    PruneBranch = "session_context"
    Tools = {"init"}
    Kills = TRUE
SPECIFICATION Spec
INVARIANTS
    InitNeverFails
