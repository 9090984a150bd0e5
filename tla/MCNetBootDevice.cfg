CONSTANTS
  Byte <- MCBytes
  NoByte = NoByte
  BufSize <- MCBufSize
  Mem = 4
  EfiByte = 0
  MinKernel = 2
  FastTicks = 0
  MaxResets = 1
  Ordered = TRUE
  Capacity = 1
  MaxLoss = 0
  MaxDup = 0
  Requests <- MCRequests
SPECIFICATION AnyHostSpec
INVARIANTS AnyHostTypeOK NoOverrun NoHoles LastAckTrue
PROPERTY ReceivedStays
