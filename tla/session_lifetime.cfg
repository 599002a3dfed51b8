SPECIFICATION FairSpec
CONSTANTS
  MaxCommands = 3
  MaxReads = 2
  Readers = {"session", "media", "play"}
  HangupEvents = TRUE
  BugOutcomes = {TRUE}
INVARIANTS TypeOK PublishedIsLive NothingLeaks
PROPERTIES HangupFrees
CHECK_DEADLOCK FALSE
