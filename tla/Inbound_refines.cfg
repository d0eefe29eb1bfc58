SPECIFICATION Spec
CONSTANTS
  Message = {m1, m2, m3}
  Handler = {h1, h2}
  Operator = {o1}
  Capacity = 2
  DefaultPolicy = "accept"
  SessionPolicies = {"hold", "refuse"}
  GateDrops = {"expired"}
  HostOutcomes = {"accepted", "unavailable"}
  StoreFaults = FALSE
  NoMessage = NoMessage
INVARIANTS
  DeliveredOnce
  InboxBounded
  RefusedErased
PROPERTIES
  ImplementsInbox
SYMMETRY Symmetry
