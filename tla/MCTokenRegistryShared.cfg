\* Both batches published to one session file, as docs/TOKEN_CONTRACT.md does.
SPECIFICATION Spec
CONSTANTS
  p1 = p1
  p2 = p2
  t1 = t1
  t2 = t2
  b1 = b1
  b2 = b2
  f1 = f1
  None = None
  Procs <- MCProcs
  Tokens <- MCTokens
  Batches <- MCBatches
  Files <- MCFiles
  FileOf <- SharedFile
  MaxFaults = 0
INVARIANT ActiveTokenOpensItsBatch
