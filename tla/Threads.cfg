SPECIFICATION ThreadsSpec
CONSTANTS
    h1 = h1
    h2 = h2
    g1 = g1
    g2 = g2
    Writer = {h1, h2}
    Capacity = 2
    NoUnit = NoUnit
    Handler = {h1, h2}
    ServerFailureLimit = 2
    Serv = {"s1", "s2", "s3"}
    Master = {"s1"}
    MaxServInGroup = 3
    Null = Null
    Addr <- Addresses
    NodeAt <- NodesAt
    Configured <- ClusterServers
    History <- ClusterHistory
    WithCport = TRUE
    MaxServNum = 4
    MaxGroupNum = 4
    Answering = {"a2"}
    MaxAsked = 2
    MaxCuts = 1
    Nothing = "nothing"
    Watched = {g1, g2}
    Address = {"a", "b", "c", "d"}
    ConfiguredIn <- GroupServers
    Sentinels <- FirstSentinel
    Views <- SentinelHistory
    MaxServers = 4
    MaxSentinelNum = 2
    MaxLate = 1
    MaxLost = 1
    NoGroup = NoGroup
    Thread = {h1, h2}
    Class = {"request", "buffer"}
    SizeOf <- SizesOf
    CacheSize = 1
    Limits = {4, 7}
    MaxObjects = 2
    Handlers <- HandlersInOrder
    Client = {"c1", "c2", "c3"}
    ClientTimeout = 2
INVARIANTS
    UnitsConserved
    SinkNotAsleep
    TriedOnce
    NoStranger
    FindsMaster
    RefreshedOnce
    NeverElsewhere
    ClusterSettled
    MembersAgree
    MemoryLimited
PROPERTIES
    LogsWritten
    Revived
    Converges
    MasterFollowed
    IdleClosed
CHECK_DEADLOCK FALSE
