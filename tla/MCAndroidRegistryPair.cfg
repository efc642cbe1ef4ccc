\* The tools also run while the service is up, as awui-android-pair does.
SPECIFICATION Spec
CONSTANTS
  b1 = b1
  b2 = b2
  dSsh = dSsh
  dDirect = dDirect
  x = x
  None = None
  Bootstraps <- MCBootstraps
  Devices <- MCDevices
  SshDevices <- MCSshDevices
  Streams = {1}
  DeviceOf <- MCDeviceOf
  Batches = {x}
  Overlap = TRUE
  MaxSeq = 2
  MaxChallenges = 2
  MaxFaults = 1
INVARIANT
  PrintedQrIsKnown
CHECK_DEADLOCK FALSE
