CONSTANTS
    Values = {v1, v2}
    QueueDepth = 2
    Room = 1
SPECIFICATION FairSpec
INVARIANTS
    AcknowledgedIsInFlight
    SidesAgreeOnMoreData
PROPERTIES
    ImplementsFifo
    EveryPayloadArrives
