CONSTANTS
  MaxEntries = 3
  MaxRaw = 4
  MaxChanges = 2
  FirmwareMaps <- MCMaps
  Word32 = 65536
  KernelFiles <- MCKernelFiles
  RamdiskSizes <- MCRamdiskSizes
  CmdlineSizes = {4094, 4097}
  PoolAddr = {2}
  QuietAfterExit = FALSE
  Sizes <- MCSizes
SPECIFICATION LocalSpec
INVARIANTS LocalTypeOK TableExact TableBound KernelMapCurrent ParametersTrue ImageWithinFile LoadIsAllOrNothing ClosesWhatItOpens BlockAndSizeAgree ZeropageFromFiles
PROPERTY BootEnds
CHECK_DEADLOCK FALSE
