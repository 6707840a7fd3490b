SPECIFICATION FairSpec
CONSTANTS
  STEPS_PER_REV = 2
  CliOps = {"QUIT"}
  CmdOps = {"STATUS"}
  PinFaults = FALSE
  Readings = {"near"}
PROPERTY QuitGetsThrough
