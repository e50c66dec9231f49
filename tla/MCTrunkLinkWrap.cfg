CONSTANTS
    a = a
    b = b
    Node = {a}
    SeqCount = 2
    Retries = 1
    HeldRequests = 1
    MaxTxn = 3
    MaxFaults = 3
SPECIFICATION Spec
INVARIANTS ReplaysOwnRequest
CHECK_DEADLOCK FALSE
