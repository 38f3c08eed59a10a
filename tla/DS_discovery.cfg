\* Two peers, one of which serves peer exchange and tells of the other in two ways.
SPECIFICATION Spec
CONSTANTS
    p1 = p1
    p2 = p2
    a = a
    k1 = k1
    k2 = k2
    Peer = {p1, p2}
    Addr = {a}
    Shard = {1, 2}
    Subdomain = {"domain", "leaf"}
    Domain = "domain"
    Entry <- MCEntry
    Capability = {"filter"}
    Wanted <- MCWanted
    ErrorTolerance = 0
    Server = {p2}
    Chain = {k1, k2}
    MaxRetries = 1
    Answer <- MCAnswer
    MaxAnswers = 1
    MayFail = FALSE
    Identified = {{a}}
INVARIANTS
    QueriesTracked
    StoredIsAnnounced
PROPERTIES
    QueriesEnd
