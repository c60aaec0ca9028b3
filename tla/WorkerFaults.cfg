CONSTANTS
  t1 = t1
  n1 = n1
  NoWorker = NoWorker
  NoTask = NoTask
  Workers = {w1, w2}
  InitialWorkers = {w1, w2}
  Tasks = {t1}
  Tenants = {n1}
  TenantOf <- OneTenant
  Outcomes <- AnyEnd
  MaxAttempts = 2
  MaxInStream = 1
  StreamTargetDepth = 2
  Requests = {}
  MaxFaults <- WorkerFaults
SPECIFICATION Spec
SYMMETRY WorkerSymmetry
INVARIANTS
  TypeOK
  DlqCorrectness
  AtLeastOnce
  InStreamCounts
  StreamLengthCounts
PROPERTIES
  KeepsLifecycle
  KeepsFlow
