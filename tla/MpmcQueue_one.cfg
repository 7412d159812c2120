CONSTANTS
  Producers = {p1}
  Consumers = {c1}
  Capacity = 1
  MaxPush = 2
SPECIFICATION Spec
INVARIANTS CapacityRespected
