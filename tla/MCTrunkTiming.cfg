CONSTANTS
    ByteTimes = {1, 3}
    MaxWire = 4
    RequestLen = 2
    ResponseLens = {2, 4}
    ForeignLens = {4}
    TGap = 2
    TResp = 4
    TTurnMax = 3
    Turnaround = 1
    Retries = 1
    HeldRequests = 2
    MaxTxn = 1
    MaxUpsets = 1
    MaxTime = 16
SPECIFICATION Spec
INVARIANTS NeverStuck InWindowClear
PROPERTIES HostProtects NodeProtects WaitsForResponse
