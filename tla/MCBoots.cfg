CONSTANTS
  Byte <- MCBytes
  NoByte = NoByte
  BufSize <- MCBufSize
  Mem = 5
  EfiByte = 0
  MinKernel = 2
  FastTicks = 1
  BlockSize = 1
  Ordered = TRUE
  Capacity = 2
  MaxLoss = 1
  MaxDup = 0
  MaxResets = 1
  MaxXfers = 4
  MaxRestarts = 1
  HostFaults = FALSE
  Patient = TRUE
  Files <- MCKernel
  Retries = 2
  Once = FALSE
SPECIFICATION LiveSpec
PROPERTIES NetBoots BeaconAgain
CHECK_DEADLOCK FALSE
