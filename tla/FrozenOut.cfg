CONSTANTS
  w1 = w1
  w2 = w2
  Tenants = {1, 2}
  Tasks = {1, 2, 3}
  NoTask = 0
  TenantOf <- FirstHasTwo
  Created <- InOrder
  Priority <- SecondUrgent
  AgingPerLevel = 2
  Restless = {1, 2}
  Workers = {w1}
  Scale = 2
  Weights = {1, 2}
  BatchSize = 2
  MaxInStream = 2
  StreamTargetDepth = 2
  MaxEvents = 0
  MaxVtime = 4
SPECIFICATION LiveSpec
PROPERTIES
  EveryTaskServed
