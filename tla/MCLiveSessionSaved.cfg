\* The same instance, and what "saved" is said to mean.
SPECIFICATION Spec
CONSTANTS
  p = p
  q = q
  x = x
  y = y
  u = u
  v = v
  None = None
  Torn = Torn
  Garbled = Garbled
  First = p
  Points <- MCPoints
  Requires <- MCRequires
  Offered <- MCOffered
  Own <- MCOwn
  Others <- MCOthers
  MaxAttempts = 2
  Capacity = 3
  MaxEvents = 3
  MaxOwn = 1
  MaxFaults = 1
INVARIANT
  SavedMeansSaved
CHECK_DEADLOCK FALSE
