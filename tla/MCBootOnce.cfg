CONSTANTS
  Byte <- MCBytes
  NoByte = NoByte
  BufSize <- MCBufSize
  Mem = 5
  EfiByte = 0
  MinKernel = 2
  FastTicks = 0
  BlockSize = 1
  Ordered = TRUE
  Capacity = 2
  MaxLoss = 1
  MaxDup = 0
  MaxResets = 0
  MaxXfers = 1
  MaxRestarts = 0
  HostFaults = FALSE
  Patient = TRUE
  Files <- MCProgram
  Retries = 3
  Once = FALSE
SPECIFICATION Spec
PROPERTY BootOnce
CHECK_DEADLOCK FALSE
