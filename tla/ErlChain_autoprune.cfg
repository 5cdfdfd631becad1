\* The keep-last prune.
CONSTANTS
    Server = {A}
    MaxId = 5
    Interval = 9
    KeepLast = 2
    PruneBranch = "main"
    Tools = {"append", "prune_last"}
    Kills = FALSE
SPECIFICATION Spec
PROPERTIES
    AutoPruneKeepsNewest
