\* Two peers with a connection each; one call, which wants Store, Light Push or both.
SPECIFICATION Spec
CONSTANTS
    a = a
    b = b
    c1 = c1
    c2 = c2
    w1 = w1
    Peer = {a, b}
    Conn = {c1, c2}
    PeerOf <- MCPeerOf
    Serves <- MCServes
    MaxChecks = 2
    Protocol = {"lightpush", "store"}
    Wait = {w1}
    MaxQueries = 2
    HasMetadata = TRUE
INVARIANTS
    SufficientEarned
    ColdWaitServed
    ScanConfirms
