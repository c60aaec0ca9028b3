CONSTANTS
  t1 = t1
  n1 = n1
  NoWorker = NoWorker
  NoTask = NoTask
  Workers = {w1, w2}
  InitialWorkers = {w1, w2}
  Tasks = {t1}
  Tenants = {n1}
  TenantOf <- OneTenant
  Outcomes <- AlwaysOk
  MaxAttempts = 4
  MaxInStream = 2
  StreamTargetDepth = 2
  Requests = {}
  MaxFaults <- OneCrash
SPECIFICATION LiveSpec
INVARIANTS
  Recoverable
PROPERTIES
  Settles
  DeadWorkersTaskIsReclaimed
