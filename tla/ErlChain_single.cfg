\* One server: appends with checkpoints, folds, the bootstrap, both prunes, restarts.
CONSTANTS
    Server = {A}
    MaxId = 8
    Interval = 3
    KeepLast = 2
    PruneBranch = "session_context"
    Tools = {"append", "fold", "init", "prune_age", "prune_last"}
    Kills = FALSE
SPECIFICATION Spec
INVARIANTS
    RestartTransparent
    TailBounded
    CheckpointsOnChain
    PruneRebuilds
    BootstrappedOnce
PROPERTIES
    UnfoldRestores
