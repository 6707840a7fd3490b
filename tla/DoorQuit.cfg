SPECIFICATION FairSpec
CONSTANTS
  STEPS_PER_REV = 4
  CliOps = {"QUIT"}
  CmdOps = {"LOCK", "UNLOCK", "STATUS"}
  PinFaults = FALSE
  Readings = {"near", "far"}
INVARIANT ReportedUnlockedIsWithdrawn
INVARIANT QuietAfterClose
PROPERTY QuitNeverUnlocks
PROPERTY KeepsPromise
PROPERTY CommandAnswered
PROPERTY ReportsConverge
