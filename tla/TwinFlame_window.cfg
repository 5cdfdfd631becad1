\* Two questions whose entries push each other out of what a probe looks at.
CONSTANTS
    Question = {q, r}
    Hash = {h1, h2}
    Conf = {2}
    NULL = NULL
    ABSENT = ABSENT
    Asked = {q, r, ABSENT}
    Recent <- Short
    MaxProbes = 2
    MaxEvals = 0
SPECIFICATION Spec
SYMMETRY Symmetry
INVARIANTS
    TypeOK
PROPERTIES
    DriftIsChange
    BaselineDecides
    OkMeansBaseline
CHECK_DEADLOCK FALSE
