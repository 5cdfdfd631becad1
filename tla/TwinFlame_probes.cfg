\* One question and two answers, an eval per branch.
CONSTANTS
    Question = {q}
    Hash = {h1, h2}
    Conf = {2}
    NULL = NULL
    ABSENT = ABSENT
    Asked = {q}
    Recent <- Window
    MaxProbes = 3
    MaxEvals = 1
SPECIFICATION Spec
SYMMETRY Symmetry
PROPERTIES
    DriftIsChange
    BaselineDecides
CHECK_DEADLOCK FALSE
