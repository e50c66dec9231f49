CONSTANTS
    k1 = k1
    k2 = k2
    k3 = k3
    NoKey = NoKey
    NumBackplanes = 1
    MaxSlots = 1
    NumIds = 1
    NumEntries = 2
    ChunkRing = 1
    LifecycleRing = 2
    Key = {k1, k2}
    DescLen <- ChunksOf
    MaxDescLen = 2
    Mute = {}
    Busy = {}
    MaxDemand = 2
    MaxNoise = 0
    MaxPlug = 2
SPECIFICATION FairSpec
PROPERTIES DescribesItsModule
