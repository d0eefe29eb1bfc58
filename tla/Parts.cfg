\* The parts that stand on their own, at their smallest interesting size.
CONSTANTS
  c1 = c1
  c2 = c2
  Client = {c1, c2}
  Plans <- FramesSent
  Room = 1
  Nobody = Nobody
  Pair = {k1}
  Burst = 2
  Sustained = 3
  Second = 2
  Window = 4
  Horizon = 10
  User = {u1, u2}
  PeerId = {q1}
  Alias = {n1}
  Inode = {i1, i2, i3, i4, i5, i6}
  MaxDeaths = 1
  Nothing = Nothing
  Listed = {1, 2}
  Automation = {2}
  Pidless = {2}
  Interval = 2
  Grace = 3
  Stale = 6
  MaxAiling = 1
  Viewer = {v1, v2}
  Pinging = {v2}
  Places = 1
  Capacity = 2
  Published = 3
  Dashboard = {d1}
  Desktop = {d2}
  Query = {1, 2}
  Revisions = 2
  Failures = 1
  Session = {s1, s2}
  Unnamed = Unnamed
  Peer = {1, 2, 3}
  Elsewhere = {3}
  Title = {t1, t2}
  AgentOfPeer <- OneAgent
  Prefix = {{1, 3}, {2}}
  Primary = {1, 3}
  NoOne = NoOne
SPECIFICATION PartsSpec
INVARIANTS
  TypeOK
  RepliesInOrder
  RateBounded
  KeptUnlessRaced
  HealthySeen
  PlacesHeld
  LatestWins
  SentAsMeant
PROPERTIES
  EveryFrameAnswered
  Converges
CHECK_DEADLOCK FALSE
