SPECIFICATION Spec
CONSTANTS
  p1 = p1
  p2 = p2
  t1 = t1
  Request = {r1, r2}
  Key = {k1}
  NoKey = NoKey
  Process = {p1}
  Thread = {t1, t2}
  Home <- OneHome
  Sender = {t1, t2}
  Keyless = {t1, t2}
  Recipient = {t1, t2}
  Sweeper = {t1, t2}
  GroupConflicts = TRUE
PROPERTIES
  ImplementsWorkflow
