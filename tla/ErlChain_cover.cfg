\* Checkpoints: a fold behind one, and their distances.
\* TLC reports the first violation it meets: take that property out to see the other.
CONSTANTS
    Server = {A}
    MaxId = 5
    Interval = 3
    KeepLast = 2
    PruneBranch = "session_context"
    Tools = {"append", "fold"}
    Kills = FALSE
SPECIFICATION Spec
INVARIANTS
    VerifyCoversChain
    CheckpointEveryInterval
