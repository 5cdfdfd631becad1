\* Two servers: one starts while its peer writes; they append to different branches.
\* TLC reports the first violation it meets: take that property out to see the other.
CONSTANTS
    Server = {A, B}
    Proxy = Proxy
    Id = {e1, e2}
    Branch = {main, coord}
    Main = main
    Coord = coord
    Archive = coord
    NULL = NULL
    Unset = Unset
    DeadlinesExpire = FALSE
    Kills = FALSE
    ProxyRuns = FALSE
SPECIFICATION Spec
PROPERTIES
    LoadSeesAcked
    OnlyModifiedTipsMove
