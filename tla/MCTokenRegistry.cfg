\* Locked operations only, one batch with its session file, up to two faults.
SPECIFICATION FairSpec
CONSTANTS
  p1 = p1
  p2 = p2
  t1 = t1
  t2 = t2
  b1 = b1
  b2 = b2
  f1 = f1
  None = None
  Procs <- MCProcs
  Tokens <- MCTokens
  Batches <- OneBatch
  Files <- MCFiles
  FileOf <- OwnFile
  MaxFaults = 2
INVARIANTS
  TypeOK
  PrintedIsDurable
  ReplayKeepsRecords
  ActiveTokenOpensItsBatch
  CompletedIsSpent
PROPERTIES
  ImplementsLifecycle
  OperationsEnd
