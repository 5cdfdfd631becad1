\* Refuted: a chat that names its mode in the query string is piped; a body
\* cut in the middle leaves a chat waiting for ever; one request ends the
\* proxy for all.  TLC stops at the first it meets: leave the others out.
CONSTANTS
    Chat = {c1}
    QueryChat = {q}
    Other = {}
    NULL = NULL
    Faults = {"shape", "cut", "reset"}
SPECIFICATION FairSpec
INVARIANTS
    QueryModeOverrides
    NoRequestKills
PROPERTIES
    ChatAlwaysSettles
CHECK_DEADLOCK FALSE
