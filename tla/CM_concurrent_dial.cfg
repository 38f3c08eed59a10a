SPECIFICATION Spec
CONSTANTS
  b1 = b1
  b2 = b2
  p1 = p1
  p2 = p2
  sb1 = sb1
  sp1 = sp1
  db1 = db1
  db2 = db2
  dp1 = dp1
  dp2 = dp2
  xp1 = xp1
  Request = {sp1, dp1}
  Stored = {sp1}
  Direct = {}
  Peer = {p1}
  Bootstrap = {}
  OnShard = {p1}
  MaxParallelDials = 2
  MaxDialAttempts = 1
  MaxBootstrap = 1
  MaxGreetings = 1
  Target <- MCTarget
INVARIANT NoConcurrentDial
