SPECIFICATION FairSpec
CONSTANTS
  c1 = c1
  c2 = c2
  Callers = {c1, c2}
  Nobody = Nobody
  Attempts <- MCOneAttempt
  MaxCalls <- MCMaxCalls
  Threshold = 2
  WireSize = 1
PROPERTIES CallsReturn
CHECK_DEADLOCK FALSE
