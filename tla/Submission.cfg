CONSTANTS
  r1 = r1
  r2 = r2
  r3 = r3
  r4 = r4
  r5 = r5
  r6 = r6
  k1 = k1
  NoKey = NoKey
  EmptyKey = EmptyKey
  Requests = {r1, r2, r3, r4, r5, r6}
  Keys = {k1, EmptyKey}
  KeyOf <- EveryKind
  MaxPending = 1
  MaxReturns = 1
SPECIFICATION Spec
SYMMETRY RivalSymmetry
CHECK_DEADLOCK FALSE
INVARIANTS
  TypeOK
  QuotaOvershoot
PROPERTIES
  RepeatFindsTask
  SubmitsOnce
