\* Two decisions in the desktop window, up to three events, one of them lost.
SPECIFICATION Spec
CONSTANTS
  p = p
  q = q
  x = x
  y = y
  u = u
  None = None
  Points <- MCPoints
  Requires <- MCRequires
  Offered <- MCOffered
  Own <- MCOwn
  Envelopes <- MCEnvelopes
  MaxAudit = 2
  MaxEvents = 3
  MaxOwn = 3
  MaxFaults = 1
INVARIANTS
  TypeOK
  AnswersAreOnRecord
  SavedIsRecorded
  ClosedSessionReachesAr
  AuditEndsWithLastEvent
PROPERTIES
  EveryRequestIsShown
  OnlyEditedIsReplaced
CHECK_DEADLOCK FALSE
