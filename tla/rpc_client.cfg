SPECIFICATION Spec
CONSTANTS
  c1 = c1
  c2 = c2
  Callers = {c1, c2}
  Nobody = Nobody
  Attempts <- MCAttempts
  MaxCalls <- MCMaxCalls
  Threshold = 2
  WireSize = 2
INVARIANTS TypeOK CallbacksTrackCalls BreakerCounts
PROPERTIES ImplementsContract
CHECK_DEADLOCK FALSE
