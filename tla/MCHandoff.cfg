\* Two clients with one token, every command able to fail, repeat or lag.
SPECIFICATION FairSpec
CONSTANTS
  c1 = c1
  c2 = c2
  Clients <- MCClients
  Attempts = 2
  MaxLaunches = 2
  MaxEvents = 1
INVARIANTS
  TypeOK
  ResultIsWhole
  UiReadsWholeRequest
  ConsumedHasResult
  OneCompletionPerLock
  SiblingsAreAccounted
PROPERTIES
  ConnectReturns
CHECK_DEADLOCK FALSE
