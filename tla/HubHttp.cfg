SPECIFICATION Spec
CONSTANTS
  Modules = {m1, m2, m3}
  Clients = {}
  HttpTargets = {m1}
  Actions = {"LOCK", "UNLOCK"}
  None = None
  m1 = m1
  m2 = m2
  m3 = m3
  MAX_DOORS = 2
  MAX_ENDPOINTS = 2
  MAX_PENDING = 1
  OFFLINE_TIMEOUT = 1
  ACK_RETRIES = 2
  StartTime = 0
  MaxTime = 0
  MaxCmdId = 3
  MaxCommands = 0
  MaxIncarnations = 2
INVARIANT TypeOK
INVARIANT AckIsTrue
INVARIANT SenderSlotKept
INVARIANT RoutesAgree
INVARIANT ExecutedByOneStart
SYMMETRY Bystanders
