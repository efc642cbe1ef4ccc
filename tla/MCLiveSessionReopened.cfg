\* The same instance with a fourth event, and how a journal is said to be numbered.
SPECIFICATION Spec
CONSTANTS
  p = p
  q = q
  x = x
  y = y
  u = u
  v = v
  None = None
  Torn = Torn
  Garbled = Garbled
  First = p
  Points <- MCPoints
  Requires <- MCRequires
  Offered <- MCOffered
  Own <- MCOwn
  Others <- MCOthers
  MaxAttempts = 2
  Capacity = 3
  MaxEvents = 4
  MaxOwn = 1
  MaxFaults = 1
INVARIANT
  MonotonicSequence
CHECK_DEADLOCK FALSE
