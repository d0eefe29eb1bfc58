SPECIFICATION Spec
CONSTANTS
  Message = {m1, m2}
  Handler = {h1, h2}
  Operator = {o1, o2}
  Capacity = 2
  DefaultPolicy = "accept"
  SessionPolicies = {"hold", "refuse"}
  GateDrops = {"expired"}
  HostOutcomes = {"accepted", "rejected", "unavailable"}
  StoreFaults = TRUE
  NoMessage = NoMessage
INVARIANTS
  NegativeVerdictFinal
  ReceiptsMatchVerdict
SYMMETRY Symmetry
