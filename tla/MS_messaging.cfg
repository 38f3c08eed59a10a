SPECIFICATION MessagingSpec
CONSTANTS
    MaxLog = 2
    PageSize = 2
    OneMillion = 100
    Mantissa = 1024
    SizeCap = 300
    Times <- MCTimes
    DefaultCluster = 1
    ShardIndex <- MCShardIndex
    Configs <- MCConfigs
    Sent <- MCSent
    Relayed = {1, 2}
    Wire <- MCWire
    s1 = s1
    s2 = s2
    Subscription = {s1, s2}
    Decoders <- MCDecoders
    Iterated = s2
INVARIANTS
    PagesJoin
    ServedWhileSubscribed
    StoppedAfterAll
    ArrivesAsSent
    WireFaithful
    WindowKept
    ShardsAgree
PROPERTIES
    QueryEnds
    StoppedIteratorEnds
CHECK_DEADLOCK FALSE
