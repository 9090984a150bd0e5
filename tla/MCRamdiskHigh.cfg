CONSTANTS
  MaxEntries = 3
  MaxRaw = 4
  MaxChanges = 2
  FirmwareMaps <- MCMaps
  Word32 = 65536
  KernelFiles <- MCKernelFiles
  RamdiskSizes <- MCRamdiskSizes
  CmdlineSizes = {4094, 4097}
  PoolAddr = {2, 5}
  QuietAfterExit = FALSE
  Sizes <- MCSizes
SPECIFICATION LocalSpec
INVARIANT RamdiskPtrOrZero
CHECK_DEADLOCK FALSE
