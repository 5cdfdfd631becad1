\* The types, and that every call answers.
CONSTANTS
    Flow = {f, g}
    Task <- Tasks
    File = {"a", "b"}
    NULL = NULL
    SameMs = FALSE
SPECIFICATION FairSpec
INVARIANTS
    TypeOK
PROPERTIES
    Answers
CHECK_DEADLOCK FALSE
