SPECIFICATION Spec
CONSTANTS
  c1 = c1
  c2 = c2
  j1 = j1
  j2 = j2
  k1 = k1
  k2 = k2
  None = None
  Caller = {c1, c2}
  Job = {j1}
  Conn = {k1}
INVARIANTS DifferentStreams
