SPECIFICATION FairSpec
CONSTANTS
  p1 = p1
  p2 = p2
  a1 = a1
  a2 = a2
  Process = {p1, p2}
  Start = {0, 1}
  MaxCrashes = 1
  Group = {g1, g2}
  Name = {n1, n2}
  Agent = {a1, a2}
  AgentOf <- Owners
  Alone = {p1}
  MaxRevision = 2
  Nobody = Nobody
CHECK_DEADLOCK FALSE
INVARIANTS
  OpenMeansCurrent
  NoOrphans
PROPERTIES
  RenamesSeeLatest
  OpensUnlessStuck
