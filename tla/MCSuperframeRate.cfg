CONSTANTS
    N = 3
    SuspectAfter = 1
    OfflineAfter = 1
    SuspectPollPeriod = 1
    OutcomeWindow = 1
    MaxDemand = 0
    MaxReplug = 2
SPECIFICATION Spec
INVARIANTS PolledAtRateInUse
