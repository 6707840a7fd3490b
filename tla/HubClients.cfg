SPECIFICATION Spec
CONSTANTS
  Modules = {m1}
  Clients = {c1, c2}
  HttpTargets = {m1}
  Actions = {"LOCK"}
  None = None
  m1 = m1
  c1 = c1
  c2 = c2
  MAX_DOORS = 2
  MAX_ENDPOINTS = 1
  MAX_PENDING = 2
  OFFLINE_TIMEOUT = 0
  ACK_RETRIES = 1
  StartTime = 0
  MaxTime = 1
  MaxCmdId = 2
  MaxCommands = 2
  MaxIncarnations = 1
SYMMETRY Symmetric
INVARIANT OneSlotPerModule
INVARIANT RelayedToAsker
PROPERTY KeepsPromise
