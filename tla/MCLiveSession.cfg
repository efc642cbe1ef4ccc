\* Two points, three events or further attaches, one write that raises.
SPECIFICATION FairSpec
CONSTANTS
  p = p
  q = q
  x = x
  y = y
  u = u
  v = v
  None = None
  Torn = Torn
  Garbled = Garbled
  First = p
  Points <- MCPoints
  Requires <- MCRequires
  Offered <- MCOffered
  Own <- MCOwn
  Others <- MCOthers
  MaxAttempts = 2
  Capacity = 3
  MaxEvents = 3
  MaxOwn = 1
  MaxFaults = 1
INVARIANTS
  TypeOK
  ShownIsAcknowledged
  SelectionExists
  AnswersFollowPrerequisites
  SavedCoversShown
  JournalHoldsAcknowledged
  OutputIsNewest
PROPERTIES
  QuitIsComplete
  KeepsLedger
  DeliveriesEnd
CHECK_DEADLOCK FALSE
