SPECIFICATION ClientSpec
CONSTANTS
  p1 = p1
  p2 = p2
  t1 = t1
  t2 = t2
  b1 = b1
  f1 = f1
  None = None
  Procs <- MCProcs
  Tokens <- MCTokens
  Batches <- MCBatches
  Files <- MCFiles
  FileOf <- OwnFile
  MaxFaults = 0
  Unlocked <- Finalizers
PROPERTY NoSecondCompletion
