SPECIFICATION FairSpec
CONSTANTS
  CallIds = {"empty", "c1"}
  MaxMessages = 3
  MaxReads = 2
INVARIANTS TypeOK IdsFirst AsrStopIsPrompt EndIsHeardOnce
PROPERTY EndIsReported
CHECK_DEADLOCK FALSE
