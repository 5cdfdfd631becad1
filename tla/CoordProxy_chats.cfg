\* Two coordinated chats and one piped request, with every fault.
CONSTANTS
    Chat = {c1, c2}
    QueryChat = {q}
    Other = {}
    NULL = NULL
    Faults = {"kill", "shape", "odd", "cut", "reset", "torn"}
SPECIFICATION FairSpec
INVARIANTS
    LedgerTellsTheTruth
    NobodyReviewsItself
PROPERTIES
    ChatSettles
CHECK_DEADLOCK FALSE
