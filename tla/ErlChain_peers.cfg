\* Two servers that bootstrap, append and prune, and die between saves.
CONSTANTS
    Server = {A, B}
    MaxId = 4
    Interval = 9
    KeepLast = 1
    PruneBranch = "session_context"
    Tools = {"append", "branch", "init", "early", "prune_age", "prune_last"}
    Kills = TRUE
SPECIFICATION Spec
SYMMETRY ServerSymmetry
INVARIANTS
    TypeOK
    ChainsWhole
PROPERTIES
    FileOnlyGrows
