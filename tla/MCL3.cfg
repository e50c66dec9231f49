CONSTANTS
    MaxPayload = 7
    MaxDescriptor = 2048
    ParamValueMax = 4095
    ErrorDetailMax = 4
    MaxSlots = 16
    ModuleTypes <- MCModuleTypes
    NodeStates <- MCNodeStates
    Events <- MCEvents
    ErrorCodes <- MCErrorCodes
    ReservedMin = 128
    Required <- MCRequired
    Repeated <- MCRepeated
    MaxLen <- MCMaxLen
    ParamKinds = {0, 1, 2, 3, 4, 5}
    SettleMax = 5000
    AudioMax = 10000
    LvMax <- MCLvMax
    HeaterMax = 2000
    BplusV = 300
    BplusMa = 40
    Sends <- MCSends
    Relays <- MCRelays
    Records <- MCRecords
    WriterCaps = {9, 13}
    MaxBlob = 13
SPECIFICATION Spec
INVARIANTS SentIsReceived RelayIsExact WriterAgreesWithValidator RecordsReadBack
CHECK_DEADLOCK FALSE
