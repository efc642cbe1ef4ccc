\* The tools also run while the service is up; one state write may raise.
SPECIFICATION Spec
CONSTANTS
  b1 = b1
  b2 = b2
  dSsh = dSsh
  dDirect = dDirect
  x = x
  None = None
  Bootstraps <- MCBootstraps
  Devices <- MCDevices
  SshDevices <- MCSshDevices
  Streams = {1}
  DeviceOf <- MCDeviceOf
  Batches = {x}
  Overlap = TRUE
  MaxSeq = 2
  MaxChallenges = 1
  MaxFaults = 1
SYMMETRY Interchangeable
INVARIANTS
  TypeOK
  OneTimeIsSpent
  RevocationIsFinal
  EnrolledHasKey
  KeysAreAccounted
  TunnelHasService
PROPERTIES
  ImplementsAnswerLog
CONSTRAINT
  NothingLost
CHECK_DEADLOCK FALSE
