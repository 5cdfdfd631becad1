\* A peer holds the lock for longer than 3 s.
CONSTANTS
    Server = {A, B}
    Proxy = Proxy
    Id = {e1, e2}
    Branch = {main, coord}
    Main = main
    Coord = coord
    Archive = coord
    NULL = NULL
    Unset = Unset
    DeadlinesExpire = TRUE
    Kills = FALSE
    ProxyRuns = FALSE
SPECIFICATION Spec
PROPERTIES
    NoClobber
