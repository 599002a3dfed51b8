SPECIFICATION FairSpec
CONSTANTS
  Producers = {p1, p2}
  Consumers = {c1, c2}
  Owners = {o1}
  Sizes = {1, 2}
  Capacities = {0, 2}
  Methods <- AllMethods
  MaxBytes = 4
INVARIANTS TypeOK BufferIsTail NoLostWakeupPop
PROPERTIES HandsOutOldest CapacityRespected SleepingConsumerWakes
