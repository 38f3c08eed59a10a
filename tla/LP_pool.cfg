\* Three connections and a pool of two; one send and its retries.
SPECIFICATION PushSpec
CONSTANTS
    p1 = p1
    p2 = p2
    c1 = c1
    c2 = c2
    c3 = c3
    p3 = p3
    r1 = r1
    Peer = {p1, p2, p3}
    Conn = {c1, c2, c3}
    PeerOf <- MCPeerOf
    NumPeersToUse = 2
    MaxAttempts = 3
    Retry = {r1}
INVARIANTS
    LockedWithinBudget
    PoolSaturated
    RetriesSpread
PROPERTIES
    ImplementsPool
    PushSettles
