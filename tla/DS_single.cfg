\* Three nodes below branches that lead in circles, also by roots, of which one Store and
\* one Filter node are wanted; two peers that are identified at two addresses, over pages
\* with and without a storage that may be full.
SPECIFICATION SingleSpec
CONSTANTS
    p = p
    q = q
    r = r
    a = a
    b = b
    Peer = {p, q, r}
    Met = {p, q}
    Addr = {a, b}
    Shard = {}
    Subdomain = {"domain", "b1", "b2", "b3", "root2", "root3", "leaf1", "leaf2", "leaf3"}
    Domain = "domain"
    Entry <- MCEntry
    Capability = {"filter", "store"}
    Wanted <- MCWanted
    ErrorTolerance = 2
    MayFail = TRUE
INVARIANTS
    NodesBounded
    HeardIsStored
PROPERTIES
    StorageLosesNone
    FindPeersEnds
