CONSTANTS
  p1 = p1 p2 = p2 t1 = t1 t2 = t2
  s1 = s1 s2 = s2
  Session = {s1, s2}
  Peer = {p1, p2}
  Thread = {t1, t2}
  Crowded = {p1}
  Serial = TRUE
  OldIds = TRUE
  Crashes = TRUE
  Faults = TRUE
  Heartbeat = hb
  None = none
SPECIFICATION Spec
CHECK_DEADLOCK FALSE
INVARIANTS MapsAgree ClosedLeavesNothing
PROPERTIES ListeningKeepsRecord CrashedIsRepaired
