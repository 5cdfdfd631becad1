\* One fold.
CONSTANTS
    Server = {A}
    MaxId = 3
    Interval = 3
    KeepLast = 2
    PruneBranch = "session_context"
    Tools = {"append", "fold"}
    Kills = FALSE
SPECIFICATION Spec
INVARIANTS
    FoldKeepsIntegrity
