CONSTANTS
    k1 = k1
    k2 = k2
    k3 = k3
    NoKey = NoKey
    NumBackplanes = 1
    MaxSlots = 2
    NumIds = 2
    NumEntries = 1
    ChunkRing = 1
    LifecycleRing = 2
    Key = {k1, k2}
    DescLen <- ChunksOf
    MaxDescLen = 2
    Mute = {}
    Busy = {}
    MaxDemand = 2
    MaxNoise = 2
    MaxPlug = 2
SPECIFICATION Spec
INVARIANTS TypeOK SlotsMatchNodes CacheCounted DescriptorIntact ChunkContinues OneChunkPending AppSeesDiscovered
PROPERTIES ClaimKeepsReads
