CONSTANTS
  Byte <- MCBytes
  NoByte = NoByte
  BufSize <- MCBufSize
  Mem = 5
  EfiByte = 0
  MinKernel = 2
  FastTicks = 0
  BlockSize = 1
  Ordered = FALSE
  Capacity = 2
  MaxLoss = 0
  MaxDup = 1
  MaxResets = 0
  MaxXfers = 2
  MaxRestarts = 1
  HostFaults = FALSE
  Patient = FALSE
  Files <- MCShort
  Retries = 1
  Once = FALSE
SPECIFICATION Spec
INVARIANTS TypeOK BytesInPlace
CHECK_DEADLOCK FALSE
