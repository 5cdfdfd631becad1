\* Two servers, one of which folds.
CONSTANTS
    Server = {A, B}
    MaxId = 2
    Interval = 3
    KeepLast = 2
    PruneBranch = "session_context"
    Tools = {"append", "fold"}
    Kills = FALSE
SPECIFICATION Spec
PROPERTIES
    UnionSafe
