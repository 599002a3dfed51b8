SPECIFICATION Spec
CONSTANTS
  Producers = {worker}
  Consumers = {play}
  Owners = {worker, app}
  Sizes = {1, 2}
  Capacities = {0}
  Methods <- ModuleMethods
  MaxBytes = 6
INVARIANTS EndMarkKept
