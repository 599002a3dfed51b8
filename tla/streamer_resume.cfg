SPECIFICATION Spec
CONSTANTS
  MaxStarts = 1
  MaxMessages = 3
  LoopBudget = 2
  Types = {"ws"}
INVARIANTS TtsStartPlays
CHECK_DEADLOCK FALSE
