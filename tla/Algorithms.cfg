SPECIFICATION AlgorithmsSpec
CONSTANTS
    Transactions = FALSE
    CommandTable <- Commands
    MaxArrayDepth = 3
    FieldLen <- Room
    MaxPort = 50
    BufferSize = 3
    MaxIOVecLen = 2
    ServGroupBits = 2
    RolePriority <- Priorities
    DCOfPrefix <- Prefixed
    DCPriority <- DCPriorities
    DCWeight <- DCWeights
    NoDC = NoDC
    NoServer = 0
    Unread = 99
    MaxDraw = 5
    MaxNodeDepth = 2
INVARIANTS
    RequestsDecoded
    ResponsesDecoded
    NodesDecoded
    AddressesDecoded
    AnswersWritten
    ScanComplete
    ReadsBest
    ConfLoaded
CHECK_DEADLOCK FALSE
