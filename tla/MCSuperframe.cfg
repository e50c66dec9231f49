CONSTANTS
    N = 3
    SuspectAfter = 1
    OfflineAfter = 1
    SuspectPollPeriod = 1
    OutcomeWindow = 1
    MaxDemand = 1
    MaxReplug = 2
SPECIFICATION FairSpec
INVARIANTS ProbesOnlyInFault 
PROPERTIES FaultEnds NoAddressStarved
