CONSTANTS
    a = a
    b = b
    Node = {a, b}
    SeqCount = 3
    Retries = 1
    HeldRequests = 1
    MaxTxn = 2
    MaxFaults = 2
SPECIFICATION FairSpec
INVARIANTS ReplaysOwnRequest
PROPERTIES  Concludes
CHECK_DEADLOCK FALSE
