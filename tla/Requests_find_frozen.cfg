SPECIFICATION Spec
CONSTANTS
  p1 = p1
  p2 = p2
  t1 = t1
  Request = {r1}
  Key = {k1}
  NoKey = NoKey
  Process = {p1, p2}
  Thread = {t1, t2}
  Home <- TwoHomes
  Sender = {t1}
  Keyless = {}
  Recipient = {t2}
  Sweeper = {}
  GroupConflicts = FALSE
PROPERTIES
  TerminalFrozen
