SPECIFICATION Spec
CONSTANTS
  STEPS_PER_REV = 4
  CliOps = {}
  CmdOps = {"LOCK", "UNLOCK", "STATUS"}
  PinFaults = TRUE
  Readings = {"near", "far", "err"}
INVARIANT TypeOK
INVARIANT ReportedLockedIsLocked
INVARIANT CountIsStepsDriven
INVARIANT OnCourse
