CONSTANTS
  t1 = t1
  n1 = n1
  NoWorker = NoWorker
  NoTask = NoTask
  Workers = {w1, w2}
  InitialWorkers = {w1}
  Tasks = {t1}
  Tenants = {n1}
  TenantOf <- OneTenant
  Outcomes <- AlwaysOk
  MaxAttempts = 6
  MaxInStream = 1
  StreamTargetDepth = 2
  Requests = {}
  MaxFaults <- PauseAndStop
SPECIFICATION Spec
INVARIANTS
  Recoverable
  StreamLengthCounts
