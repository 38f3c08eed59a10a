\* One peer; two calls at a time, about two topics.
SPECIFICATION Spec
CONSTANTS
    a = a
    b = b
    t1 = t1
    t2 = t2
    u1 = u1
    u2 = u2
    m1 = m1
    Peer = {a}
    NumPeersToUse = 1
    Topic = {t1, t2}
    Message = {m1}
    TopicOf <- MCTopicOf
    Call = {u1, u2}
    PingsBeforePeerRenewed = 2
    MaxSubscribeAttempts = 1
    None = None
INVARIANTS
    MonitorFollowsCallbacks
    DeliveredOnce
SYMMETRY CallSymmetry
