SPECIFICATION FairSpec
CONSTANTS
  p1 = p1
  p2 = p2
  p3 = p3
  r1 = r1
  r2 = r2
  r3 = r3
  Peer = {p1, p2}
  Thread = {t1, t2}
  Loop = {g1, g2}
  Request = {r1, r2}
  To <- Addressed
  Foreign = {}
  MaxPeers = 2
  SlowHost = TRUE
  Faults = FALSE
  None = None
CHECK_DEADLOCK FALSE
PROPERTIES
  LockReleased
