SPECIFICATION FairSpec
CONSTANTS
    c1 = c1
    c2 = c2
    Clients = {c1, c2}
    MaxEvents = 2
    MaxAudio = 1
    MaxSeq = 4
    MaxLosses = 1
INVARIANTS
    ReceivedInOrder
    NothingSkipped
    WaiterIsWoken
PROPERTIES
    EveryReaderEnds
CHECK_DEADLOCK FALSE
