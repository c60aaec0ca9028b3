CONSTANTS
  w1 = w1
  w2 = w2
  Tenants = {1, 2}
  Tasks = {1, 2, 3}
  NoTask = 0
  TenantOf <- FirstHasTwo
  Created <- InOrder
  Priority <- SecondUrgent
  AgingPerLevel = 2
  Restless = {}
  Workers = {w1, w2}
  Scale = 2
  Weights = {1, 2}
  BatchSize = 2
  MaxInStream = 1
  StreamTargetDepth = 2
  MaxEvents = 1
  MaxVtime = 8
SPECIFICATION LiveSpec
INVARIANTS
  TypeOK
  RoomsListed
  Spread
  Backpressure
  CapKept
PROPERTIES
  DrainsUnlessWiped
  KeepsFlow
