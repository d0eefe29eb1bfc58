SPECIFICATION PromptSpec
CONSTANTS
  p1 = p1
  p2 = p2
  p3 = p3
  r1 = r1
  r2 = r2
  r3 = r3
  Peer = {p1, p2, p3}
  Thread = {t1, t2}
  Loop = {g1, g2}
  Request = {r1, r2}
  To <- Addressed
  Foreign = {r2}
  MaxPeers = 2
  SlowHost = FALSE
  Faults = TRUE
  None = None
CHECK_DEADLOCK FALSE
INVARIANTS
  OneSupervisor
  StopsWithLastPeer
  RecordsMatchListeners
  Served
PROPERTIES
  EveryMessageAnswered
