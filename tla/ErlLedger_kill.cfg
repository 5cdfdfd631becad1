\* Two servers, killed and restarted: acknowledged and pruned entries are lost.
\* TLC reports the first violation it meets: take that property out to see the other.
CONSTANTS
    Server = {A, B}
    Proxy = Proxy
    Id = {e1, e2}
    Branch = {main, coord}
    Main = main
    Coord = coord
    Archive = coord
    NULL = NULL
    Unset = Unset
    DeadlinesExpire = TRUE
    Kills = TRUE
    ProxyRuns = FALSE
SPECIFICATION Spec
INVARIANTS
    RestartFindsAcked
    DiskWhole
