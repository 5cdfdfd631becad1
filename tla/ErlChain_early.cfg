\* A tool call before the boot has initialised session_context.
CONSTANTS
    Server = {A}
    MaxId = 4
    Interval = 9
    KeepLast = 2
    PruneBranch = "session_context"
    Tools = {"append", "init", "early"}
    Kills = FALSE
SPECIFICATION Spec
INVARIANTS
    BootstrappedOnce
