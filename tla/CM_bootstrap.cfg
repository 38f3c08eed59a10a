SPECIFICATION Spec
CONSTANTS
  b1 = b1
  b2 = b2
  p1 = p1
  p2 = p2
  sb1 = sb1
  sp1 = sp1
  db1 = db1
  db2 = db2
  dp1 = dp1
  dp2 = dp2
  xp1 = xp1
  Request = {sb1, db2}
  Stored = {sb1}
  Direct = {}
  Peer = {b1, b2, p1}
  Bootstrap = {b1, b2}
  OnShard = {b1, b2}
  MaxParallelDials = 2
  MaxDialAttempts = 1
  MaxBootstrap = 1
  MaxGreetings = 2
  Target <- MCTarget
INVARIANTS OnlineNotMissed ConnectedIsPinged StatusAnnounced
