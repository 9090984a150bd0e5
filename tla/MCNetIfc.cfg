CONSTANTS
  NumBuffers = 3
  MaxMCast = 1
  MacAddr <- MCMac
  IpAddr <- MCIp
  Frames <- MCFrames
  TxRing = 2
  RxQueue = 2
  MaxFrames = 4
  LevelIrq = TRUE
  Faults = TRUE
SPECIFICATION FairSpec
INVARIANTS TypeOK PoolConserved AnswersGoBack SolicitationsHeard UpIsInitialized
PROPERTIES PoolSpec PoolRefills AllRead
CHECK_DEADLOCK FALSE
