SPECIFICATION Spec
CONSTANTS
  p1 = p1
  p2 = p2
  p3 = p3
  r1 = r1
  r2 = r2
  r3 = r3
  Peer = {p1}
  Thread = {t1}
  Loop = {g1}
  Request = {r1}
  To <- Addressed
  Foreign = {r1}
  MaxPeers = 1
  SlowHost = FALSE
  Faults = FALSE
  None = None
CHECK_DEADLOCK FALSE
INVARIANTS
  NobodyKilled
