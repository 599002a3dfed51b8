SPECIFICATION FairSpec
CONSTANTS
  MaxStarts = 2
  MaxMessages = 2
  LoopBudget = 1
  Types = {"ws"}
INVARIANT NullOnlyWhileCreating
PROPERTIES OwnEndOnceConnected IsAudioPath IsStreamerLife CallsReturn EndTurnsOffPlay
CHECK_DEADLOCK FALSE
