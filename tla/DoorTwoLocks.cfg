SPECIFICATION Spec
CONSTANTS
  STEPS_PER_REV = 4
  CliOps = {"LOCK"}
  CmdOps = {"LOCK"}
  PinFaults = FALSE
  Readings = {"near"}
INVARIANT ReportedLockedIsLocked
