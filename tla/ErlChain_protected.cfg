\* The keep-last prune of a bootstrapped branch.
CONSTANTS
    Server = {A}
    MaxId = 7
    Interval = 9
    KeepLast = 2
    PruneBranch = "session_context"
    Tools = {"append", "init", "prune_last"}
    Kills = FALSE
SPECIFICATION Spec
PROPERTIES
    ProtectedNeverPruned
