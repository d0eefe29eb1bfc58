SPECIFICATION FairSpec
CONSTANTS
  Member = {a1, a2, a3}
  Self = {a3}
  Caller = {c1, c2}
  MaxRetries = 1
  Concurrency = 1
  Timeouts = TRUE
  Faults = TRUE
CHECK_DEADLOCK FALSE
INVARIANTS
  OneFanOut
  CompletedMeansAnswered
  OutcomesConverge
PROPERTIES
  OutcomesFinal
  FanOutCompletes
