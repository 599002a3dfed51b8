SPECIFICATION MCSpec
CONSTANTS
  Calls = {"c1", "c2"}
  Data <- CallData
  MaxCommands = 3
  UrlTokens = 4
INVARIANTS TypeOK ParamsAsWritten FaultIsBadCommand ConnectsWhenComplete  UrlAgrees
PROPERTY HangupSparesOthers
CHECK_DEADLOCK FALSE
