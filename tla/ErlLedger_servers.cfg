\* Two servers, no fault: the promise of the file lock.
CONSTANTS
    Server = {A, B}
    Proxy = Proxy
    Id = {e1, e2, e3}
    Branch = {main, coord}
    Main = main
    Coord = coord
    Archive = coord
    NULL = NULL
    Unset = Unset
    DeadlinesExpire = FALSE
    Kills = FALSE
    ProxyRuns = FALSE
SPECIFICATION Spec
SYMMETRY Symmetry
INVARIANTS
    MutualExclusion
    AckedDurable
    IdleSynced
PROPERTIES
    ImplementsDurable
