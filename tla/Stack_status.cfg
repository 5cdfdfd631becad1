\* A run with --status.
CONSTANTS
    STACK <- TwoServices
    Launcher = {L, S}
    StatusOnly = {S}
    Kernel = {}
    NULL = NULL
    Crashes = FALSE
SPECIFICATION Spec
INVARIANTS
    StatusTakesNoAction
CHECK_DEADLOCK FALSE
