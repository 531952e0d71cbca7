CONSTANTS
    DEPTH = 2
    Values = {v1, v2, v3}
    NoValue = NoValue
SPECIFICATION MsduSpec
INVARIANTS WaitingIsSound
PROPERTIES EveryValueArrives SenderResumes
