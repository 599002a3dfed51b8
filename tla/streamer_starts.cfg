SPECIFICATION Spec
CONSTANTS
  MaxStarts = 2
  MaxMessages = 4
  LoopBudget = 2
  Types = {"ws", "websocket"}
INVARIANTS TypeOK StaleAtMostOne StopIsPrompt InterruptIsPrompt ClosedStopsPlay OnlyReplacedDangles
CHECK_DEADLOCK FALSE
