SPECIFICATION FairPoliteSpec
CONSTANTS
  Producers = {p1, p2}
  Consumers = {c1}
  Owners = {p1, o1}
  Sizes = {2, 3}
  Capacities = {0, 3}
  Methods <- UtteranceMethods
  MaxBytes = 11
INVARIANTS NoLostWakeupPush NoPhantomEnd
PROPERTIES IsByteStream EndReported
