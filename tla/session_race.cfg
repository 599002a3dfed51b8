SPECIFICATION Spec
CONSTANTS
  MaxCommands = 2
  MaxReads = 0
  Readers = {"session"}
  HangupEvents = TRUE
  BugOutcomes = {TRUE}
INVARIANTS OneDeletion
CHECK_DEADLOCK FALSE
