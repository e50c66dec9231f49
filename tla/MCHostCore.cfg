CONSTANTS
    k1 = k1
    k2 = k2
    k3 = k3
    NoKey = NoKey
    N = 3
    SuspectAfter = 1
    OfflineAfter = 1
    SuspectPollPeriod = 0
    OutcomeWindow = 0
    MaxDemand = 1
    MaxChanges = 2
    MaxSlots = 1
    NumIds = 2
    NumEntries = 2
    ChunkRing = 1
    LifecycleRing = 1
    Key = {k1, k2, k3}
    DescLen <- ChunksOf
    MaxDescLen = 1
    MuteKeys = {k2}
    BusyKeys = {k3}
    Straps <- MCStraps
    Populated = {1, 2}
SPECIFICATION FairSpec
PROPERTIES ImplementsSuperframe IdsSurviveOutages EveryModuleDiscovered
