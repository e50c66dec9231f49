CONSTANTS
    IdPool = 3
    ParamRing = 3
    ResultRing = 3
    LifecycleRing = 3
    MaxDeliveries = 3
SPECIFICATION FairDelivery
INVARIANTS DeliveryTypeOK IdsAccounted DrainWithinRings
PROPERTIES EveryGetDelivered
