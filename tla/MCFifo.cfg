CONSTANTS
  Byte <- MCBytes
  NoByte = NoByte
  BufSize <- MCBufSize
  Mem = 5
  EfiByte = 0
  MinKernel = 2
  FastTicks = 0
  BlockSize = 1
  Ordered = TRUE
  Capacity = 2
  MaxLoss = 1
  MaxDup = 0
  MaxResets = 1
  MaxXfers = 2
  MaxRestarts = 1
  HostFaults = FALSE
  Patient = FALSE
  Files <- MCFiles
  Retries = 2
  Once = FALSE
SPECIFICATION Spec
INVARIANTS FifoInv BootsWholeFile InStep
PROPERTY DeliverySpec
CHECK_DEADLOCK FALSE
