\* Two peers and room for one; one call at a time.
SPECIFICATION Spec
CONSTANTS
    a = a
    b = b
    t1 = t1
    t2 = t2
    u1 = u1
    u2 = u2
    m1 = m1
    Peer = {a, b}
    NumPeersToUse = 1
    Topic = {t1}
    Message = {}
    TopicOf <- MCTopicOf
    Call = {u1}
    PingsBeforePeerRenewed = 1
    MaxSubscribeAttempts = 2
    None = None
PROPERTIES
    StaysServed
SYMMETRY PeerSymmetry
