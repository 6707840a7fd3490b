SPECIFICATION Spec
CONSTANTS
  Modules = {m1}
  Clients = {c1}
  HttpTargets = {m1}
  Actions = {"LOCK"}
  None = None
  m1 = m1
  c1 = c1
  MAX_DOORS = 1
  MAX_ENDPOINTS = 1
  MAX_PENDING = 1
  OFFLINE_TIMEOUT = 1
  ACK_RETRIES = 2
  StartTime = 0
  MaxTime = 0
  MaxCmdId = 2
  MaxCommands = 2
  MaxIncarnations = 1
INVARIANT AckIsTrue
