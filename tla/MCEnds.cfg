CONSTANTS
  Byte <- MCBytes
  NoByte = NoByte
  BufSize <- MCBufSize
  Mem = 5
  EfiByte = 0
  MinKernel = 2
  FastTicks = 1
  BlockSize = 1
  Ordered = FALSE
  Capacity = 2
  MaxLoss = 1
  MaxDup = 0
  MaxResets = 0
  MaxXfers = 1
  MaxRestarts = 0
  HostFaults = TRUE
  Patient = FALSE
  Files <- MCAllFiles
  Retries = 2
  Once = TRUE
SPECIFICATION HostSpec
PROPERTIES TransferEnds
CHECK_DEADLOCK FALSE
