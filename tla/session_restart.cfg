SPECIFICATION Spec
CONSTANTS
  MaxCommands = 3
  MaxReads = 0
  Readers = {"session"}
  HangupEvents = FALSE
  BugOutcomes = {TRUE}
INVARIANTS StartPlays
CHECK_DEADLOCK FALSE
