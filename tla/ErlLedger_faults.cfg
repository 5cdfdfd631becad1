\* Two servers and the coord-proxy, with kills and expiring deadlines.
CONSTANTS
    Server = {A, B}
    Proxy = Proxy
    Id = {e1, e2}
    Branch = {main, coord}
    Main = main
    Coord = coord
    Archive = coord
    NULL = NULL
    Unset = Unset
    DeadlinesExpire = TRUE
    Kills = TRUE
    ProxyRuns = TRUE
SPECIFICATION Spec
SYMMETRY Symmetry
INVARIANTS
    TypeOK
    DiskClosed
    MemClosed
