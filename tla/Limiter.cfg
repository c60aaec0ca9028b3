CONSTANTS
  Second = 3
  BucketTTL = 3
  Limits <- SlowOrFast
  DefaultLimit <- Fast
  MaxBurst = 2
  EffectiveRate = 2
  Tasks = {1, 2}
  Workers = {w1, w2}
  NoTask = 0
  SlotTTL = 2
  MaxSlots = 1
  MaxClock = 3
  MaxChanges = 1
  MaxCrashes = 1
SPECIFICATION Spec
SYMMETRY WorkerSymmetry
INVARIANTS
  TypeOK
  WindowBound
  RetryAfterIsEnough
  RunHoldsSlot
  SlotCap
  SlotsReturn
