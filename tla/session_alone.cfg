SPECIFICATION Spec
CONSTANTS
  MaxCommands = 4
  MaxReads = 3
  Readers = {"session"}
  HangupEvents = FALSE
  BugOutcomes = {TRUE, FALSE}
INVARIANT AloneIsSafe
PROPERTY CallsFollow
CHECK_DEADLOCK FALSE
