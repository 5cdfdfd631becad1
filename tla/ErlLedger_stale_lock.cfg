\* Kills leave stale locks; saves terminate all the same.
CONSTANTS
    Server = {A, B}
    Proxy = Proxy
    Id = {e1}
    Branch = {main, coord}
    Main = main
    Coord = coord
    Archive = coord
    NULL = NULL
    Unset = Unset
    DeadlinesExpire = TRUE
    Kills = TRUE
    ProxyRuns = FALSE
SPECIFICATION FairSpec
PROPERTIES
    SaveTerminates
