\* Two scripts named in one millisecond.
CONSTANTS
    Flow = {f, g}
    Task <- Tasks
    File = {"a", "b"}
    NULL = NULL
    SameMs = TRUE
SPECIFICATION Spec
INVARIANTS
    OwnData
CHECK_DEADLOCK FALSE
