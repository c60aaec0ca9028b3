CONSTANTS
  t1 = t1
  n1 = n1
  NoWorker = NoWorker
  NoTask = NoTask
  Workers = {w1, w2}
  InitialWorkers = {w1, w2}
  Tasks = {t1}
  Tenants = {n1}
  TenantOf <- OneTenant
  Outcomes <- OkOrPermanent
  MaxAttempts = 2
  MaxInStream = 1
  StreamTargetDepth = 2
  Requests = {q1}
  MaxFaults <- OneCrash
SPECIFICATION Spec
SYMMETRY WorkerSymmetry
INVARIANTS
  DlqCorrectness
PROPERTIES
  KeepsLifecycle
