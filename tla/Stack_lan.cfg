\* A launcher and a LAN kernel on one machine, servers that crash.
CONSTANTS
    STACK <- TwoServices
    Launcher = {L}
    StatusOnly = {}
    Kernel = {K}
    NULL = NULL
    Crashes = TRUE
SPECIFICATION FairSpec
INVARIANTS
    NothingOutlivesLauncher
PROPERTIES
    OnlyOwnChildrenStopped
    StackComesUp
    SignalStopsChildren
    RoutingFollowsPorts
CHECK_DEADLOCK FALSE
