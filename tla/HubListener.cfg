SPECIFICATION FairSpec
CONSTANTS
  None = None
  Timeout = 1
  SockBuf = 1
  MaxLate = 1
INVARIANT TypeOK
PROPERTY OfflineExplained
PROPERTY OfflineBecomesRight
PROPERTY PictureConverges
PROPERTY MonitorCatchesUp
