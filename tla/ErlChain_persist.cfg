\* A prune that keeps nothing, then a restart.
CONSTANTS
    Server = {A}
    MaxId = 5
    Interval = 9
    KeepLast = 2
    PruneBranch = "main"
    Tools = {"append", "prune_age"}
    Kills = FALSE
SPECIFICATION Spec
INVARIANTS
    PersistedOnEveryWrite
