\* Two calls of unfold, of any two of the tasks.
CONSTANTS
    Flow = {f, g}
    Task <- Tasks
    File = {"a", "b"}
    NULL = NULL
    SameMs = FALSE
SPECIFICATION Spec
INVARIANTS
    RespondsOnce
    OwnData
    OutputExists
CHECK_DEADLOCK FALSE
