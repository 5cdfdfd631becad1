\* Refuted: handles nobody can stop (a job id added twice; a browser whose page
\* does not open; two stops and a listen of one token), and a message handed
\* out twice, by two bots.  TLC stops at the first: leave the others out.
CONSTANTS
    Client = {c1, c2}
    Port = {p}
    JobId = {j}
    Token = {t}
    NULL = NULL
    MaxHandles = 2
    MaxMessages = 2
    InboxCap = 1
    InboxTake = 1
    Occupied = {}
SPECIFICATION Spec
INVARIANTS
    AllReachable
    BotsReachable
    HandedOutOnce
CHECK_DEADLOCK FALSE
