\* A check or a drift on record is what the next answer is compared with; each server sees its own chain.
\* TLC reports the first violation it meets: take that property out to see the others.
CONSTANTS
    Question = {q}
    Hash = {h1, h2}
    Conf = {2, NULL}
    NULL = NULL
    ABSENT = ABSENT
    Asked = {q}
    Recent <- Window
    MaxProbes = 3
    MaxEvals = 1
SPECIFICATION Spec
PROPERTIES
    StableMeansBaseline
    DriftMeansMismatch
    DivergenceSeesPeers
CHECK_DEADLOCK FALSE
