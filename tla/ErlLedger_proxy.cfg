\* One server and the coord-proxy.
CONSTANTS
    Server = {A}
    Proxy = Proxy
    Id = {e1, e2}
    Branch = {main, coord}
    Main = main
    Coord = coord
    Archive = coord
    NULL = NULL
    Unset = Unset
    DeadlinesExpire = FALSE
    Kills = FALSE
    ProxyRuns = TRUE
SPECIFICATION Spec
INVARIANTS
    EventsCommitted
